---- MODULE Spec2Model ----
(***************************************************************************)
(* Document content model of memos-cloudflare: the inline tokenizer and    *)
(* block scanner of the REST client (frontend/src/api/client.ts), the      *)
(* markdown service parser and serializer (grpcweb client), the property   *)
(* classifier, and the tag extraction the backend runs on memo creation.   *)
(*                                                                         *)
(* A text is a sequence of characters; a character is a one-character      *)
(* string (the backtick and the CJK characters are written by code point). *)
(* Offsets are zero-based as in JavaScript: the character at offset k of s *)
(* is s[k + 1].                                                            *)
(***************************************************************************)
EXTENDS Integers, Sequences, FiniteSets, TLC

VARIABLES
    content,    \* the text of the memo
    pc,         \* draft, stored, loaded, parsed or restored
    parser,     \* which block scanner produced nodes: none, convert, markdown
    tags,       \* the tag names the backend stored for the memo
    nodes,      \* the node list of the last parse
    scan,       \* the iterations of the scanner that produced nodes
    property,   \* the memo's property record
    markdown,   \* the text restored from nodes
    calls,      \* the invocations in flight on behalf of concurrent requests
    lastIndexOf, \* lastIndex of the tag and link regex objects, per owner
    listing,    \* which property filters of GET /api/memo select the memo
    db,         \* the tables of the backend database
    reqs        \* the PATCH and DELETE requests of the backend's clients

memoVars == <<content, pc, parser, tags, nodes, scan, property, markdown, listing>>

callVars == <<calls, lastIndexOf>>

backendVars == <<db, reqs>>

vars == <<content, pc, parser, tags, nodes, scan, property, markdown, calls, lastIndexOf,
          listing, db, reqs>>

(***************************************************************************)
(* Character classes of the regular expressions used by the code.          *)
(***************************************************************************)
NL == "\n"

\* \s of a JavaScript regular expression, and what String.trim removes.
Whitespace == {" ", "\t", "\n", "\r"}

Digits == {"0", "1", "2", "3", "4", "5", "6", "7", "8", "9"}

Lower == {"a", "b", "c", "d", "e", "f", "g", "h", "i", "j", "k", "l", "m",
          "n", "o", "p", "q", "r", "s", "t", "u", "v", "w", "x", "y", "z"}

Upper == {"A", "B", "C", "D", "E", "F", "G", "H", "I", "J", "K", "L", "M",
          "N", "O", "P", "Q", "R", "S", "T", "U", "V", "W", "X", "Y", "Z"}

\* Stand-ins for the characters of the range \u4e00-\u9fa5.
CJK == {"U+4E00", "U+4E2D", "U+9FA5"}

\* \w
WordChars == Lower \cup Upper \cup Digits \cup {"_"}

\* [a-zA-Z0-9\u4e00-\u9fa5_-]
TagChars == Lower \cup Upper \cup Digits \cup CJK \cup {"_", "-"}

(***************************************************************************)
(* String primitives.                                                      *)
(***************************************************************************)
\* s.substring(from, to), zero-based, to exclusive.
Substring(s, from, to) == SubSeq(s, from + 1, to)

\* s.substring(from)
SubstringFrom(s, from) == SubSeq(s, from + 1, Len(s))

\* s.startsWith(p, at)
StartsWithAt(s, p, at) ==
    /\ at + Len(p) <= Len(s)
    /\ \A k \in 1..Len(p) : s[at + k] = p[k]

StartsWith(s, p) == StartsWithAt(s, p, 0)

EndsWith(s, p) == Len(p) <= Len(s) /\ StartsWithAt(s, p, Len(s) - Len(p))

\* The number of consecutive characters of class S in s from offset at on.
RECURSIVE RunLen(_, _, _)
RunLen(s, at, S) ==
    IF at < Len(s) /\ s[at + 1] \in S THEN 1 + RunLen(s, at + 1, S) ELSE 0

\* The number of consecutive characters outside class S in s from offset at on.
RECURSIVE RunLenNot(_, _, _)
RunLenNot(s, at, S) ==
    IF at < Len(s) /\ s[at + 1] \notin S THEN 1 + RunLenNot(s, at + 1, S) ELSE 0

\* The number of consecutive characters of class S that end s before offset to.
RECURSIVE RunLenBack(_, _, _)
RunLenBack(s, to, S) ==
    IF to > 0 /\ s[to] \in S THEN 1 + RunLenBack(s, to - 1, S) ELSE 0

\* s.trim()
Trim(s) ==
    LET lead == RunLen(s, 0, Whitespace)
    IN IF lead = Len(s) THEN <<>>
       ELSE Substring(s, lead, Len(s) - RunLenBack(s, Len(s), Whitespace))

\* text.split('\n'): always at least one line.
RECURSIVE SplitFrom(_, _, _)
SplitFrom(s, at, cur) ==
    IF at >= Len(s) THEN <<cur>>
    ELSE IF s[at + 1] = NL THEN <<cur>> \o SplitFrom(s, at + 1, <<>>)
    ELSE SplitFrom(s, at + 1, Append(cur, s[at + 1]))

SplitLines(s) == SplitFrom(s, 0, <<>>)

\* parts.join(sep)
RECURSIVE Join(_, _)
Join(parts, sep) ==
    IF Len(parts) = 0 THEN <<>>
    ELSE IF Len(parts) = 1 THEN parts[1]
    ELSE parts[1] \o sep \o Join(Tail(parts), sep)

\* c.repeat(n)
\* The string once, whatever the count.
RepeatOnce(s, n) == IF n = 0 THEN <<>> ELSE s

RECURSIVE Repeat(_, _)
Repeat(s, n) == IF n <= 0 THEN <<>> ELSE s \o Repeat(s, n - 1)

\* Whether some offset of s satisfies the match-length operator M (regex.test).
RegexTest(s, M(_, _)) == \E at \in 0..Len(s) : M(s, at) > 0

(***************************************************************************)
(* The patterns of parseLineContent.  A match-length operator gives the    *)
(* length of the match that starts at an offset, or -1 when none does.     *)
(***************************************************************************)
\* The backtick, written by its code point.
BT == "U+0060"

Fence == <<BT, BT, BT>>

\* /#([a-zA-Z0-9\u4e00-\u9fa5_-]*)/ at offset at: the name may be empty
tagRegexEmptyName(line, at) ==
    IF StartsWithAt(line, <<"#">>, at) THEN 1 + RunLen(line, at + 1, TagChars) ELSE -1

\* /#([a-zA-Z0-9\u4e00-\u9fa5_-]+)/ at offset at
tagRegex(line, at) ==
    IF at < Len(line) /\ line[at + 1] = "#" /\ RunLen(line, at + 1, TagChars) > 0
    THEN 1 + RunLen(line, at + 1, TagChars)
    ELSE -1

\* The length of "http://" or "https://" at offset at, or -1.
SchemeLen(s, at) ==
    IF StartsWithAt(s, <<"h", "t", "t", "p", ":", "/", "/">>, at) THEN 7
    ELSE IF StartsWithAt(s, <<"h", "t", "t", "p", "s", ":", "/", "/">>, at) THEN 8
    ELSE -1

\* linkRegex with [^\s]* for [^\s]+: the scheme alone is a match.
linkRegexEmptyRun(line, at) ==
    LET sl == SchemeLen(line, at)
    IN IF sl > 0 THEN sl + RunLenNot(line, at + sl, Whitespace) ELSE -1

\* /(https?:\/\/[^\s]+)/ at offset at
linkRegex(line, at) ==
    LET sl == SchemeLen(line, at)
        run == RunLenNot(line, at + sl, Whitespace)
    IN IF sl > 0 /\ run > 0 THEN sl + run ELSE -1

\* The exec loop of a global regex: every match from offset at on, leftmost
\* first, each search resuming where the previous match ended.
RECURSIVE ExecAll(_, _, _, _)
ExecAll(line, at, M(_, _), kind) ==
    IF at >= Len(line) THEN <<>>
    ELSE LET n == M(line, at)
         IN IF n > 0
            THEN <<[type |-> kind, start |-> at, end |-> at + n]>>
                     \o ExecAll(line, at + n, M, kind)
            ELSE ExecAll(line, at + 1, M, kind)

\* The tag matches with the whole match, '#' included, as payload.
TagMatchesWholeMatch(line) ==
    LET ms == ExecAll(line, 0, tagRegex, "tag")
    IN [k \in 1..Len(ms) |->
          [type |-> "tag", start |-> ms[k].start, end |-> ms[k].end,
           content |-> Substring(line, ms[k].start, ms[k].end)]]

\* The tag matches of the line; the payload is capture group 1 (no '#').
TagMatches(line) ==
    LET ms == ExecAll(line, 0, tagRegex, "tag")
    IN [k \in 1..Len(ms) |->
          [type |-> "tag", start |-> ms[k].start, end |-> ms[k].end,
           content |-> Substring(line, ms[k].start + 1, ms[k].end)]]

\* The link matches of the line; the payload is the whole match.
LinkMatches(line) ==
    LET ms == ExecAll(line, 0, linkRegex, "link")
    IN [k \in 1..Len(ms) |->
          [type |-> "link", start |-> ms[k].start, end |-> ms[k].end,
           content |-> Substring(line, ms[k].start, ms[k].end)]]

\* Insertion of m into a list sorted by start, after the entries that do not
\* come later (a stable sort).
RECURSIVE InsertByStart(_, _)
InsertByStart(sorted, m) ==
    IF Len(sorted) = 0 THEN <<m>>
    ELSE IF sorted[1].start - m.start <= 0
         THEN <<sorted[1]>> \o InsertByStart(Tail(sorted), m)
         ELSE <<m>> \o sorted

\* The matches left as pushed: every tag before every link.
SortByStartKeepsOrder(ms) == ms

\* matches.sort((a, b) => a.start - b.start)
RECURSIVE SortByStart(_)
SortByStart(ms) ==
    IF Len(ms) = 0 THEN <<>>
    ELSE InsertByStart(SortByStart(SubSeq(ms, 1, Len(ms) - 1)), ms[Len(ms)])

(***************************************************************************)
(* Inline nodes.                                                           *)
(***************************************************************************)
TextNode(s) == [type |-> "TEXT", content |-> s]

TagNode(name) == [type |-> "TAG", content |-> name]

AutoLinkNode(u) == [type |-> "AUTO_LINK", url |-> u]

CodeNode(s) == [type |-> "CODE", content |-> s]

LineBreakNode == [type |-> "LINE_BREAK"]

\* The node pushed for a match.
MatchNode(m) == IF m.type = "tag" THEN TagNode(m.content) ELSE AutoLinkNode(m.content)

\* The loop over the sorted matches.  Every node is paired with the extent
\* [start, end) of the line it was cut from.
RECURSIVE BuildChildren(_, _, _, _)
BuildChildren(line, ms, k, lastIndex) ==
    IF k > Len(ms)
    THEN IF lastIndex < Len(line)
         THEN <<[node |-> TextNode(SubstringFrom(line, lastIndex)),
                 start |-> lastIndex, end |-> Len(line)]>>
         ELSE <<>>
    ELSE LET m == ms[k]
             gap == IF m.start > lastIndex
                    THEN <<[node |-> TextNode(Substring(line, lastIndex, m.start)),
                            start |-> lastIndex, end |-> m.start]>>
                    ELSE <<>>
         IN gap \o <<[node |-> MatchNode(m), start |-> m.start, end |-> m.end]>>
                \o BuildChildren(line, ms, k + 1, m.end)

\* parseLineContent with the extent of every node it returns.
parseLineSpans(line) ==
    LET matches == SortByStart(TagMatches(line) \o LinkMatches(line))
        children == BuildChildren(line, matches, 1, 0)
    IN IF Len(children) = 0
       THEN <<[node |-> TextNode(line), start |-> 0, end |-> Len(line)]>>
       ELSE children

NodesOf(spans) == [k \in 1..Len(spans) |-> spans[k].node]

parseLineContent(line) == NodesOf(parseLineSpans(line))

(***************************************************************************)
(* Block nodes.                                                            *)
(***************************************************************************)
ParagraphNode(children) == [type |-> "PARAGRAPH", children |-> children]

CodeBlockNode(language, text) ==
    [type |-> "CODE_BLOCK", language |-> language, content |-> text]

TaskListItemNode(indent, complete, children) ==
    [type |-> "TASK_LIST_ITEM", symbol |-> "-", indent |-> indent,
     complete |-> complete, children |-> children]

UnorderedListItemNode(indent, children) ==
    [type |-> "UNORDERED_LIST_ITEM", symbol |-> "-", indent |-> indent,
     children |-> children]

OrderedListItemNode(number, indent, children) ==
    [type |-> "ORDERED_LIST_ITEM", number |-> number, indent |-> indent,
     children |-> children]

HeadingNode(level, children) ==
    [type |-> "HEADING", level |-> level, children |-> children]

(***************************************************************************)
(* What both block scanners share: the fence test and the blank test.      *)
(***************************************************************************)
\* line.trim().startsWith('```')
IsFence(line) == StartsWith(Trim(line), Fence)

\* line.trim() === ''
IsBlank(line) == Len(Trim(line)) = 0

\* FenceClose with a loop that tests the line untrimmed.
RECURSIVE FenceCloseUntrimmed(_, _)
FenceCloseUntrimmed(lines, i) ==
    IF i < Len(lines) /\ ~StartsWith(lines[i + 1], Fence)
    THEN FenceCloseUntrimmed(lines, i + 1)
    ELSE i

\* FenceClose with a loop that also stops at a blank line.
RECURSIVE FenceCloseAtBlank(_, _)
FenceCloseAtBlank(lines, i) ==
    IF i < Len(lines) /\ ~IsFence(lines[i + 1]) /\ ~IsBlank(lines[i + 1])
    THEN FenceCloseAtBlank(lines, i + 1)
    ELSE i

\* The inner while of a code block: the index of the first fence line from
\* index i on, or lines.length.
RECURSIVE FenceClose(_, _)
FenceClose(lines, i) ==
    IF i < Len(lines) /\ ~IsFence(lines[i + 1]) THEN FenceClose(lines, i + 1) ELSE i

(***************************************************************************)
(* convertContentToNodes (REST client).                                    *)
(***************************************************************************)
\* line.trim().match(/^```(\w*)/)[1]
FenceLanguageWord(line) ==
    LET t == Trim(line) IN Substring(t, 3, 3 + RunLen(t, 3, WordChars))

\* codeContent of the inner while over lines[i .. j-1]: a newline is put
\* before a line only when the content so far is a non-empty string.
RECURSIVE CodeContent(_, _, _, _)
CodeContent(lines, i, j, acc) ==
    IF i >= j THEN acc
    ELSE CodeContent(lines, i + 1, j,
                     (IF Len(acc) > 0 THEN acc \o <<NL>> ELSE acc) \o lines[i + 1])

\* The paragraph while: the index after the last consecutive line from i on
\* that is neither blank nor a fence.
RECURSIVE ParagraphEnd(_, _)
ParagraphEnd(lines, i) ==
    IF i < Len(lines) /\ ~IsBlank(lines[i + 1]) /\ ~IsFence(lines[i + 1])
    THEN ParagraphEnd(lines, i + 1)
    ELSE i

\* A LINE_BREAK after every line, the last included.
RECURSIVE ParagraphChildrenTrailingBreak(_, _, _)
ParagraphChildrenTrailingBreak(lines, i, j) ==
    IF i >= j THEN <<>>
    ELSE parseLineContent(lines[i + 1]) \o <<LineBreakNode>>
           \o ParagraphChildrenTrailingBreak(lines, i + 1, j)

\* The children of a paragraph over lines[i .. j-1].
RECURSIVE ParagraphChildren(_, _, _)
ParagraphChildren(lines, i, j) ==
    IF i >= j THEN <<>>
    ELSE parseLineContent(lines[i + 1])
           \o (IF i < j - 1 THEN <<LineBreakNode>> ELSE <<>>)
           \o ParagraphChildren(lines, i + 1, j)

\* ConvertIteration with a paragraph loop that leaves the cursor on the last
\* line it collected.
ConvertIterationRevisits(lines, i) ==
    LET line == lines[i + 1]
    IN IF IsFence(line)
       THEN LET j == FenceClose(lines, i + 1)
            IN [first |-> i,
                next |-> IF j < Len(lines) THEN j + 1 ELSE j,
                nodes |-> <<CodeBlockNode(FenceLanguageWord(line),
                                          CodeContent(lines, i + 1, j, <<>>))>>]
       ELSE IF IsBlank(line)
       THEN [first |-> i, next |-> i + 1, nodes |-> <<>>]
       ELSE LET j == ParagraphEnd(lines, i)
                children == ParagraphChildren(lines, i, j)
            IN [first |-> i, next |-> IF j > i + 1 THEN j - 1 ELSE j,
                nodes |-> IF j > i /\ Len(children) > 0
                          THEN <<ParagraphNode(children)>> ELSE <<>>]

\* One iteration of the outer while at cursor i: the nodes it pushes and the
\* cursor it leaves.
ConvertIteration(lines, i) ==
    LET line == lines[i + 1]
    IN IF IsFence(line)
       THEN LET j == FenceClose(lines, i + 1)
            IN [first |-> i,
                next |-> IF j < Len(lines) THEN j + 1 ELSE j,
                nodes |-> <<CodeBlockNode(FenceLanguageWord(line),
                                          CodeContent(lines, i + 1, j, <<>>))>>]
       ELSE IF IsBlank(line)
       THEN [first |-> i, next |-> i + 1, nodes |-> <<>>]
       ELSE LET j == ParagraphEnd(lines, i)
                children == ParagraphChildren(lines, i, j)
            IN [first |-> i, next |-> j,
                nodes |-> IF j > i /\ Len(children) > 0
                          THEN <<ParagraphNode(children)>> ELSE <<>>]

\* The outer while from cursor i on, as the list of its iterations.
RECURSIVE ConvertFrom(_, _)
ConvertFrom(lines, i) ==
    IF i >= Len(lines) THEN <<>>
    ELSE LET it == ConvertIteration(lines, i)
         IN <<it>> \o ConvertFrom(lines, it.next)

\* The iterations of convertContentToNodes(text).
ConvertScan(text) ==
    IF Len(text) = 0 \/ Len(Trim(text)) = 0 THEN <<>>
    ELSE ConvertFrom(SplitLines(text), 0)

\* The nodes pushed by a list of iterations, in order.
RECURSIVE ScanNodes(_)
ScanNodes(its) ==
    IF Len(its) = 0 THEN <<>> ELSE its[1].nodes \o ScanNodes(Tail(its))

convertContentToNodes(text) == ScanNodes(ConvertScan(text))

(***************************************************************************)
(* parseMarkdownToNodes (markdown service client).                         *)
(***************************************************************************)
\* What '.' does not match.
LineTerminators == {"\n", "\r"}

\* The text captured by a trailing (.*) that starts at offset at.
DotStar(line, at) == Substring(line, at, at + RunLenNot(line, at, LineTerminators))

\* The length of the leading whitespace, capture (\s*).
LeadingSpace(line) == RunLen(line, 0, Whitespace)

\* /^(\s*)- \[([ xX])\] (.*)/.test(line)
IsTaskLine(line) ==
    LET lead == LeadingSpace(line)
    IN /\ StartsWithAt(line, <<"-", " ", "[">>, lead)
       /\ lead + 3 < Len(line)
       /\ line[lead + 4] \in {" ", "x", "X"}
       /\ StartsWithAt(line, <<"]", " ">>, lead + 4)

\* /^(\s*)- (.*)/.test(line)
IsUnorderedLine(line) == StartsWithAt(line, <<"-", " ">>, LeadingSpace(line))

\* /^(\s*)(\d+)\. (.*)/.test(line)
IsOrderedLine(line) ==
    LET lead == LeadingSpace(line)
        digits == RunLen(line, lead, Digits)
    IN digits > 0 /\ StartsWithAt(line, <<".", " ">>, lead + digits)

\* /^#{1,6} (.*)/.test(line)
IsHeadingLine(line) ==
    LET hashes == RunLen(line, 0, {"#"})
    IN hashes >= 1 /\ hashes <= 6 /\ StartsWithAt(line, <<" ">>, hashes)

\* /`([^`]+)`/ at offset at
inlineCodeRegex(line, at) ==
    LET run == RunLenNot(line, at + 1, {BT})
    IN IF /\ at < Len(line)
          /\ line[at + 1] = BT
          /\ run > 0
          /\ at + 1 + run < Len(line)
       THEN run + 2
       ELSE -1

\* line.split(/(`[^`]+`)/): the pieces between the matches, each followed by
\* the match itself.
RECURSIVE SplitInlineCode(_, _, _)
SplitInlineCode(line, at, from) ==
    IF at >= Len(line) THEN <<SubstringFrom(line, from)>>
    ELSE LET n == inlineCodeRegex(line, at)
         IN IF n > 0
            THEN <<Substring(line, from, at), Substring(line, at, at + n)>>
                     \o SplitInlineCode(line, at + n, at + n)
            ELSE SplitInlineCode(line, at + 1, from)

\* The children pushed for the parts of a line with inline code.
RECURSIVE InlineCodeChildren(_)
InlineCodeChildren(parts) ==
    IF Len(parts) = 0 THEN <<>>
    ELSE LET part == parts[1]
             here == IF StartsWith(part, <<BT>>) /\ EndsWith(part, <<BT>>)
                     THEN <<CodeNode(Substring(part, 1, Len(part) - 1))>>
                     ELSE IF Len(Trim(part)) > 0 THEN <<TextNode(part)>>
                     ELSE <<>>
         IN here \o InlineCodeChildren(Tail(parts))

\* One level per leading whitespace character.
IndentPerCharacter(line) == LeadingSpace(line)

\* Math.floor(match[1].length / 2)
Indent(line) == LeadingSpace(line) \div 2

\* TaskNodeOf without the toLowerCase: only 'x' completes an item.
TaskNodeOfLowerCaseOnly(line) ==
    LET lead == LeadingSpace(line)
    IN TaskListItemNode(Indent(line), line[lead + 4] = "x",
                        <<TextNode(DotStar(line, lead + 6))>>)

TaskNodeOf(line) ==
    LET lead == LeadingSpace(line)
    IN TaskListItemNode(Indent(line), line[lead + 4] \in {"x", "X"},
                        <<TextNode(DotStar(line, lead + 6))>>)

UnorderedNodeOf(line) ==
    UnorderedListItemNode(Indent(line),
                          <<TextNode(DotStar(line, LeadingSpace(line) + 2))>>)

OrderedNodeOf(line) ==
    LET lead == LeadingSpace(line)
        digits == RunLen(line, lead, Digits)
    IN OrderedListItemNode(Substring(line, lead, lead + digits), Indent(line),
                           <<TextNode(DotStar(line, lead + digits + 2))>>)

HeadingNodeOf(line) ==
    LET hashes == RunLen(line, 0, {"#"})
    IN HeadingNode(hashes, <<TextNode(DotStar(line, hashes + 1))>>)

InlineCodeNodesOf(line) ==
    LET textChildren == InlineCodeChildren(SplitInlineCode(line, 0, 0))
    IN IF Len(textChildren) > 0 THEN <<ParagraphNode(textChildren)>> ELSE <<>>

\* LineNodes with the unordered rule tried before the task rule.
LineNodesUnorderedFirst(line) ==
    IF IsUnorderedLine(line) THEN <<UnorderedNodeOf(line)>>
    ELSE IF IsTaskLine(line) THEN <<TaskNodeOf(line)>>
    ELSE IF IsOrderedLine(line) THEN <<OrderedNodeOf(line)>>
    ELSE IF IsHeadingLine(line) THEN <<HeadingNodeOf(line)>>
    ELSE IF RegexTest(line, inlineCodeRegex) THEN InlineCodeNodesOf(line)
    ELSE IF Len(Trim(line)) > 0 THEN <<ParagraphNode(<<TextNode(line)>>)>>
    ELSE <<LineBreakNode>>

\* The if / else-if cascade for a line that does not open a code block.
LineNodes(line) ==
    IF IsTaskLine(line) THEN <<TaskNodeOf(line)>>
    ELSE IF IsUnorderedLine(line) THEN <<UnorderedNodeOf(line)>>
    ELSE IF IsOrderedLine(line) THEN <<OrderedNodeOf(line)>>
    ELSE IF IsHeadingLine(line) THEN <<HeadingNodeOf(line)>>
    ELSE IF RegexTest(line, inlineCodeRegex) THEN InlineCodeNodesOf(line)
    ELSE IF Len(Trim(line)) > 0 THEN <<ParagraphNode(<<TextNode(line)>>)>>
    ELSE <<LineBreakNode>>

\* MarkdownIteration whose code block branch leaves the cursor on the closing
\* fence line instead of after it.
MarkdownIterationKeepsClosingFence(lines, i) ==
    LET line == lines[i + 1]
    IN IF IsFence(line)
       THEN LET j == FenceClose(lines, i + 1)
            IN [first |-> i, next |-> j,
                nodes |-> <<CodeBlockNode(SubstringFrom(Trim(line), 3),
                                          Join(SubSeq(lines, i + 2, j), <<NL>>))>>]
       ELSE [first |-> i, next |-> i + 1, nodes |-> LineNodes(line)]

\* One iteration of the for loop at cursor i, the i++ of the loop included.
MarkdownIteration(lines, i) ==
    LET line == lines[i + 1]
    IN IF IsFence(line)
       THEN LET j == FenceClose(lines, i + 1)
            IN [first |-> i, next |-> j + 1,
                nodes |-> <<CodeBlockNode(SubstringFrom(Trim(line), 3),
                                          Join(SubSeq(lines, i + 2, j), <<NL>>))>>]
       ELSE [first |-> i, next |-> i + 1, nodes |-> LineNodes(line)]

RECURSIVE MarkdownFrom(_, _)
MarkdownFrom(lines, i) ==
    IF i >= Len(lines) THEN <<>>
    ELSE LET it == MarkdownIteration(lines, i)
         IN <<it>> \o MarkdownFrom(lines, it.next)

\* The iterations of parseMarkdownToNodes(text).
MarkdownScan(text) == MarkdownFrom(SplitLines(text), 0)

parseMarkdownToNodes(text) == ScanNodes(MarkdownScan(text))

(***************************************************************************)
(* restoreNodesToMarkdown and extractTextFromChildren.                     *)
(***************************************************************************)
\* A LINE_BREAK child rendered as a newline.
ChildTextBreakAsNewline(child) ==
    IF child.type = "TEXT" THEN child.content
    ELSE IF child.type = "CODE" THEN <<BT>> \o child.content \o <<BT>>
    ELSE IF child.type = "LINE_BREAK" THEN <<NL>>
    ELSE <<>>

\* A TAG rendered as '#name' and an AUTO_LINK as its URL.
ChildTextWithMarkup(child) ==
    IF child.type = "TEXT" THEN child.content
    ELSE IF child.type = "CODE" THEN <<BT>> \o child.content \o <<BT>>
    ELSE IF child.type = "TAG" THEN <<"#">> \o child.content
    ELSE IF child.type = "AUTO_LINK" THEN child.url
    ELSE <<>>

\* What one child contributes: TAG, AUTO_LINK and LINE_BREAK children carry
\* neither children nor textNode and fall through the default case.
ChildText(child) ==
    IF child.type = "TEXT" THEN child.content
    ELSE IF child.type = "CODE" THEN <<BT>> \o child.content \o <<BT>>
    ELSE <<>>

RECURSIVE extractTextFromChildren(_)
extractTextFromChildren(children) ==
    IF Len(children) = 0 THEN <<>>
    ELSE ChildText(children[1]) \o extractTextFromChildren(Tail(children))

\* The entries one node pushes on the output lines.
NodeLines(node) ==
    IF node.type = "TASK_LIST_ITEM"
    THEN <<Repeat(<<" ", " ">>, node.indent) \o <<"-", " ">>
             \o (IF node.complete THEN <<"[", "x", "]">> ELSE <<"[", " ", "]">>)
             \o <<" ">> \o extractTextFromChildren(node.children)>>
    ELSE IF node.type = "UNORDERED_LIST_ITEM"
    THEN <<Repeat(<<" ", " ">>, node.indent) \o <<"-", " ">>
             \o extractTextFromChildren(node.children)>>
    ELSE IF node.type = "ORDERED_LIST_ITEM"
    THEN <<Repeat(<<" ", " ">>, node.indent) \o node.number \o <<".", " ">>
             \o extractTextFromChildren(node.children)>>
    ELSE IF node.type = "CODE_BLOCK"
    THEN <<Fence \o node.language, node.content, Fence>>
    ELSE IF node.type = "HEADING"
    THEN <<Repeat(<<"#">>, IF node.level = 0 THEN 1 ELSE node.level) \o <<" ">>
             \o extractTextFromChildren(node.children)>>
    ELSE IF node.type = "PARAGRAPH"
    THEN <<extractTextFromChildren(node.children)>>
    ELSE IF node.type = "TEXT"
    THEN <<node.content>>
    ELSE IF node.type = "LINE_BREAK"
    THEN << <<>> >>
    ELSE <<>>

RECURSIVE RestoreLines(_)
RestoreLines(ns) ==
    IF Len(ns) = 0 THEN <<>> ELSE NodeLines(ns[1]) \o RestoreLines(Tail(ns))

restoreNodesToMarkdown(ns) == Join(RestoreLines(ns), <<NL>>)

(***************************************************************************)
(* calculateMemoProperties.                                                *)
(***************************************************************************)
\* /- \[[ xX]\]/ at offset at
taskBoxRegex(s, at) ==
    IF /\ StartsWithAt(s, <<"-", " ", "[">>, at)
       /\ at + 3 < Len(s)
       /\ s[at + 4] \in {" ", "x", "X"}
       /\ StartsWithAt(s, <<"]">>, at + 4)
    THEN 5 ELSE -1

\* The fence marker alone, without the single backtick alternative.
codeRegexFenceOnly(s, at) == IF StartsWithAt(s, Fence, at) THEN 3 ELSE -1

\* /```|`/ at offset at
codeRegex(s, at) ==
    IF StartsWithAt(s, Fence, at) THEN 3
    ELSE IF StartsWithAt(s, <<BT>>, at) THEN 1
    ELSE -1

\* /- \[[ xX]\]/ in the place of the empty box pattern
emptyBoxRegexAnyBox(s, at) == taskBoxRegex(s, at)

\* /- \[ \]/ at offset at
emptyBoxRegex(s, at) ==
    IF StartsWithAt(s, <<"-", " ", "[", " ", "]">>, at) THEN 5 ELSE -1

calculateMemoProperties(text) ==
    [hasLink |-> RegexTest(text, linkRegex),
     hasTaskList |-> RegexTest(text, taskBoxRegex),
     hasCode |-> RegexTest(text, codeRegex),
     hasIncompleteTasks |-> RegexTest(text, emptyBoxRegex)]

(***************************************************************************)
(* The tag extraction behind updateMemoTags (backend utils): the hashtag   *)
(* pattern of the tokenizer applied to the raw text, duplicates collapsed. *)
(***************************************************************************)
extractTags(text) ==
    LET ms == TagMatches(text) IN {ms[k].content : k \in 1..Len(ms)}

(***************************************************************************)
(* The texts explored.  An inline text is a line put together from at most *)
(* MaxPieces pieces of one vocabulary; a block text is at most MaxLines     *)
(* lines of one vocabulary joined by newlines.                             *)
(***************************************************************************)
MaxPieces == 3

MaxLines == 3

Http == <<"h", "t", "t", "p", ":", "/", "/">>

Https == <<"h", "t", "t", "p", "s", ":", "/", "/">>

TaskDone == <<"-", " ", "[", "x", "]", " ">>

TaskOpen == <<"-", " ", "[", " ", "]", " ">>

LinkPieces == {Http, Https \o <<"x">>, <<"a">>, <<"#", "b">>, <<" ">>, <<"/">>, <<"#">>}

CodePieces == {<<BT>>, Fence, <<"a">>, <<" ">>, <<"#", "b">>, Http \o <<"a">>}

FenceLines ==
    {Fence, Fence \o <<"j", "s">>, <<"a">>, <<>>, TaskDone \o <<"#", "b">>,
     <<"#", " ", "a">>}

IndentedFenceLines ==
    {<<" ">> \o Fence, Fence \o <<"j", "s", " ", "x">>, <<"#", "b">>, <<" ">>, <<"a">>}

TaskLines ==
    {TaskDone \o <<"d", "o", "n", "e">>, TaskOpen \o <<"t", "o", "d", "o">>,
     <<"-", " ", "[", "X", "]", " ", "#", "b">>,
     <<"-", " ", "[", "y", "]", " ", "a">>, <<"-", " ", "[", "x", "]", "a">>,
     <<"-", " ", "a">>}

ListLines ==
    {<<" ", " ", "-", " ", "a">>, <<"1", "2", ".", " ", "a">>, <<"1", ".", "a">>,
     <<" ", "3", ".", " ", "-", " ", "b">>, TaskDone,
     <<" ", " ", " ">> \o TaskOpen \o <<"c">>}

HeadingLines ==
    {<<"#", " ", "a">>, <<"#", "#", " ", "T", "i", "t", "l", "e">>,
     <<"#", "#", "#", "#", "#", "#", " ", "a">>,
     <<"#", "#", "#", "#", "#", "#", "#", " ", "a">>,
     <<"#", " ", "#", "b">>, <<"#", "b">>}

HeadingEdgeLines ==
    {<<"#", " ">>, <<"#", " ", "s", "e", "e", " ">> \o Http \o <<"a">>, <<"#">>,
     <<" ", "#", " ", "a">>, <<"a">>}

PlainLines == {<<"a">>, <<"b", " ", "c">>, <<" ", "a">>, <<>>, <<" ">>, <<"c">>}

MixedLines ==
    {<<"a", BT, "b", BT>>, <<"#", "b">>, Http \o <<"a">>, <<"a">>, <<>>, <<BT>>}

\* Runs of backticks next to an inline code span.
BacktickPieces == {<<BT, BT>>, <<"a", BT>>}

PieceVocabularies == {LinkPieces, CodePieces, BacktickPieces}

LineVocabularies ==
    {FenceLines, IndentedFenceLines, TaskLines, ListLines, HeadingLines,
     HeadingEdgeLines, PlainLines, MixedLines}

\* The sequences of at most n elements of V.
SeqsUpTo(V, n) == UNION {[1..k -> V] : k \in 0..n}

InlineTexts ==
    UNION {{Join(ps, <<>>) : ps \in SeqsUpTo(V, MaxPieces)} : V \in PieceVocabularies}

BlockTexts ==
    UNION {{Join(ls, <<NL>>) : ls \in SeqsUpTo(V, MaxLines)} : V \in LineVocabularies}

Inputs == InlineTexts \cup BlockTexts

(***************************************************************************)
(* Invocations in flight.  The client's callers are async: any number of   *)
(* requests may have an invocation of the tokenizer, the scanner, the      *)
(* serializer or the classifier under way.  The steps of different         *)
(* invocations interleave freely, which covers every coarser scheduling.   *)
(* An invocation keeps its input, its cursor, its matches and its output   *)
(* buffer in locals; the two regex objects carry lastIndex.                *)
(***************************************************************************)
Requests == {"r1", "r2"}

Idle ==
    [op |-> "none", pc |-> "idle", input |-> <<>>, i |-> 0, matches |-> <<>>,
     out |-> <<>>, overlapped |-> FALSE]

NoCalls == [r \in Requests |-> Idle]

NoLastIndex == [r \in Requests |-> [tag |-> 0, link |-> 0]]

\* The lines and texts the requests work on.
CallLines ==
    {<<"#", "b", " ">> \o Http \o <<"a">>, <<"a", " ", "#", "b", " ", "#", "c">>,
     Http \o <<"a", " ">> \o Https \o <<"x">>, <<"a">>, <<>>}

CallTexts ==
    {TaskDone \o <<"#", "b", NL, "#", " ", "a">>, Fence \o <<NL, "a">>,
     <<"a", NL, NL, "1", ".", " ", "b">>}

\* The regex literals are evaluated in the body of parseLineContent: every
\* invocation gets regex objects of its own.
RegexOwnerShared(r) == "r1"

RegexOwner(r) == r

\* One regex.exec(line) of a global regex whose lastIndex is at: the leftmost
\* match at or after at, or index -1 (null).
RECURSIVE ExecOnce(_, _, _)
ExecOnce(line, M(_, _), at) ==
    IF at >= Len(line) THEN [index |-> -1, end |-> 0]
    ELSE IF M(line, at) > 0 THEN [index |-> at, end |-> at + M(line, at)]
    ELSE ExecOnce(line, M, at + 1)

InFlight(q) == calls[q].pc \notin {"idle", "returned"}

\* The locals of invocation r after a step; overlapped records that the step
\* was taken while another invocation was under way.
Stepped(r, c) ==
    [c EXCEPT !.overlapped = @ \/ \E q \in Requests \ {r} : InFlight(q)]

CallParseLineContent(r) ==
    /\ calls[r].pc = "idle"
    /\ \E line \in CallLines :
          calls' = [calls EXCEPT ![r] =
                       Stepped(r, [Idle EXCEPT !.op = "parseLineContent",
                                               !.pc = "tags", !.input = line])]
    /\ lastIndexOf' = [lastIndexOf EXCEPT ![RegexOwner(r)] = [tag |-> 0, link |-> 0]]
    /\ UNCHANGED <<memoVars, backendVars>>

\* One turn of while ((match = tagRegex.exec(line)) !== null).
TagExec(r) ==
    /\ calls[r].pc = "tags"
    /\ LET line == calls[r].input
           o == RegexOwner(r)
           m == ExecOnce(line, tagRegex, lastIndexOf[o].tag)
       IN IF m.index >= 0
          THEN /\ calls' = [calls EXCEPT ![r] =
                              Stepped(r, [@ EXCEPT !.matches =
                                  Append(@, [type |-> "tag", start |-> m.index,
                                             end |-> m.end,
                                             content |-> Substring(line, m.index + 1, m.end)])])]
               /\ lastIndexOf' = [lastIndexOf EXCEPT ![o].tag = m.end]
          ELSE /\ calls' = [calls EXCEPT ![r] = Stepped(r, [@ EXCEPT !.pc = "links"])]
               /\ lastIndexOf' = [lastIndexOf EXCEPT ![o].tag = 0]
    /\ UNCHANGED <<memoVars, backendVars>>

\* One turn of while ((match = linkRegex.exec(line)) !== null).
LinkExec(r) ==
    /\ calls[r].pc = "links"
    /\ LET line == calls[r].input
           o == RegexOwner(r)
           m == ExecOnce(line, linkRegex, lastIndexOf[o].link)
       IN IF m.index >= 0
          THEN /\ calls' = [calls EXCEPT ![r] =
                              Stepped(r, [@ EXCEPT !.matches =
                                  Append(@, [type |-> "link", start |-> m.index,
                                             end |-> m.end,
                                             content |-> Substring(line, m.index, m.end)])])]
               /\ lastIndexOf' = [lastIndexOf EXCEPT ![o].link = m.end]
          ELSE /\ calls' = [calls EXCEPT ![r] = Stepped(r, [@ EXCEPT !.pc = "children"])]
               /\ lastIndexOf' = [lastIndexOf EXCEPT ![o].link = 0]
    /\ UNCHANGED <<memoVars, backendVars>>

\* The sort, the loop over the matches, the fallback and the return.
BuildAndReturn(r) ==
    /\ calls[r].pc = "children"
    /\ LET line == calls[r].input
           children == NodesOf(BuildChildren(line, SortByStart(calls[r].matches), 1, 0))
       IN calls' = [calls EXCEPT ![r] =
                       Stepped(r, [@ EXCEPT !.pc = "returned",
                                            !.out = IF Len(children) = 0
                                                    THEN <<TextNode(line)>>
                                                    ELSE children])]
    /\ UNCHANGED <<lastIndexOf, memoVars, backendVars>>

CallParseMarkdown(r) ==
    /\ calls[r].pc = "idle"
    /\ \E text \in CallTexts :
          calls' = [calls EXCEPT ![r] =
                       Stepped(r, [Idle EXCEPT !.op = "parseMarkdownToNodes",
                                               !.pc = "lines", !.input = text])]
    /\ UNCHANGED <<lastIndexOf, memoVars, backendVars>>

\* One iteration of the for loop of parseMarkdownToNodes, or its return.
LineStep(r) ==
    /\ calls[r].pc = "lines"
    /\ LET lines == SplitLines(calls[r].input)
       IN IF calls[r].i < Len(lines)
          THEN LET it == MarkdownIteration(lines, calls[r].i)
               IN calls' = [calls EXCEPT ![r] =
                               Stepped(r, [@ EXCEPT !.i = it.next,
                                                    !.out = @ \o it.nodes])]
          ELSE calls' = [calls EXCEPT ![r] = Stepped(r, [@ EXCEPT !.pc = "returned"])]
    /\ UNCHANGED <<lastIndexOf, memoVars, backendVars>>

\* calculateMemoProperties holds no loop and no regex with lastIndex.
CallClassify(r) ==
    /\ calls[r].pc = "idle"
    /\ \E text \in CallTexts :
          calls' = [calls EXCEPT ![r] =
                       Stepped(r, [Idle EXCEPT !.op = "calculateMemoProperties",
                                               !.pc = "returned", !.input = text,
                                               !.out = calculateMemoProperties(text)])]
    /\ UNCHANGED <<lastIndexOf, memoVars, backendVars>>

\* restoreMarkdownNodes on the node list another invocation returned.
CallRestore(r) ==
    /\ calls[r].pc = "idle"
    /\ \E q \in Requests \ {r} :
          /\ calls[q].pc = "returned"
          /\ calls[q].op = "parseMarkdownToNodes"
          /\ calls' = [calls EXCEPT ![r] =
                          Stepped(r, [Idle EXCEPT !.op = "restoreNodesToMarkdown",
                                                  !.pc = "returned",
                                                  !.input = calls[q].out,
                                                  !.out = restoreNodesToMarkdown(calls[q].out)])]
    /\ UNCHANGED <<lastIndexOf, memoVars, backendVars>>

(***************************************************************************)
(* The memo listing of the backend: GET /api/memo and its property        *)
(* filters, which are LIKE conditions on the stored content.               *)
(***************************************************************************)
LowerLetters ==
    <<"a", "b", "c", "d", "e", "f", "g", "h", "i", "j", "k", "l", "m",
      "n", "o", "p", "q", "r", "s", "t", "u", "v", "w", "x", "y", "z">>

UpperLetters ==
    <<"A", "B", "C", "D", "E", "F", "G", "H", "I", "J", "K", "L", "M",
      "N", "O", "P", "Q", "R", "S", "T", "U", "V", "W", "X", "Y", "Z">>

\* LIKE of SQLite compares ASCII letters without regard to case.
FoldCase(c) ==
    IF c \in Upper
    THEN LowerLetters[CHOOSE i \in DOMAIN UpperLetters : UpperLetters[i] = c]
    ELSE c

\* s LIKE p of SQLite: % stands for any run of characters, _ for one.
RECURSIVE Like(_, _)
Like(s, p) ==
    IF p = <<>> THEN s = <<>>
    ELSE IF Head(p) = "%"
         THEN \E k \in 0..Len(s) : Like(SubstringFrom(s, k), Tail(p))
    ELSE IF s = <<>> THEN FALSE
    ELSE IF Head(p) = "_" THEN Like(Tail(s), Tail(p))
    ELSE FoldCase(Head(s)) = FoldCase(Head(p)) /\ Like(Tail(s), Tail(p))

\* The pattern '%https%' in the place of '%http%'.
hasLinkFilterHttpsOnly(text) ==
    Like(text, <<"%", "h", "t", "t", "p", "s", "%">>)

\* has_task_list == true: m.content LIKE '%- [%]%'
hasTaskListFilter(text) == Like(text, <<"%", "-", " ", "[", "%", "]", "%">>)

\* has_link == true: m.content LIKE '%http%'
hasLinkFilter(text) == Like(text, <<"%", "h", "t", "t", "p", "%">>)

\* has_code == true: m.content LIKE '%```%' OR m.content LIKE '%`%'
hasCodeFilter(text) ==
    \/ Like(text, <<"%">> \o Fence \o <<"%">>)
    \/ Like(text, <<"%", BT, "%">>)

NoListing == [has_link |-> FALSE, has_task_list |-> FALSE, has_code |-> FALSE]

(***************************************************************************)
(* The tables of the backend and the requests that change a memo.          *)
(***************************************************************************)
Clients == {"c1", "c2"}

\* No row: what first() returns as null, and an id no row has.
NullId == 0

\* The rows of table user: uid to id.
UserRows == ("u1" :> 1) @@ ("u2" :> 2) @@ ("u3" :> 3)

\* The rows of table resource: uid to id.
ResourceRows == ("ra" :> 1) @@ ("rb" :> 2)

\* The ids a request path may name; no memo has the last one.
TargetIds == {1, 2, 3}

\* Math.floor(Date.now() / 1000) of a request, later than every seeded row.
Now == 1

SeedTs == 0

\* The Authorization header of a request: valid is what verifyJWT decides,
\* sub and role are the payload of the token.
NoToken == [valid |-> FALSE, sub |-> "", role |-> ""]

Tokens ==
    {NoToken,
     [valid |-> FALSE, sub |-> "u2", role |-> "HOST"],
     [valid |-> TRUE, sub |-> "u1", role |-> "USER"],
     [valid |-> TRUE, sub |-> "u2", role |-> "USER"],
     [valid |-> TRUE, sub |-> "u3", role |-> "HOST"],
     [valid |-> TRUE, sub |-> "u9", role |-> "USER"]}

\* The JSON body of a PATCH: has names the fields that are not undefined.
EmptyBody ==
    [has |-> {}, content |-> <<>>, state |-> "", resourceIdList |-> <<>>,
     resources |-> <<>>, relations |-> <<>>]

Bodies ==
    {[EmptyBody EXCEPT !.has = {"content"}, !.content = <<"#", "a">>],
     [EmptyBody EXCEPT !.has = {"state"}, !.state = "ARCHIVED"],
     [EmptyBody EXCEPT !.has = {"resourceIdList"}, !.resourceIdList = <<1>>],
     [EmptyBody EXCEPT !.has = {"resourceIdList"}, !.resourceIdList = <<2>>],
     [EmptyBody EXCEPT !.has = {"resourceIdList"}, !.resourceIdList = <<1, 2>>],
     [EmptyBody EXCEPT !.has = {"relations"}, !.relations = <<1, 3>>],
     [EmptyBody EXCEPT !.has = {"content", "state", "relations"},
                       !.content = <<"#", "b">>, !.state = "NORMAL",
                       !.resources = <<"rb", "rx">>]}

SeedDb ==
    [memo |->
        (1 :> [creator_id |-> 1, content |-> <<"#", "s">>,
               row_status |-> "NORMAL", updated_ts |-> SeedTs])
        @@ (2 :> [creator_id |-> 2, content |-> <<"x">>,
                  row_status |-> "NORMAL", updated_ts |-> SeedTs]),
     memo_resource |-> {<<1, 1>>, <<2, 2>>},
     memo_relation |-> {<<2, 1>>},
     memo_tag |-> {<<1, <<"s">>>>}]

IdleReq ==
    [pc |-> "idle", method |-> "", memoId |-> NullId, token |-> NoToken,
     body |-> EmptyBody, todo |-> <<>>, status |-> 0]

NoReqs == [c \in Clients |-> IdleReq]

\* authMiddleware: the request goes on to the handler, with the payload as
\* c.get('user'), only under a Bearer token that verifyJWT accepts.
authMiddleware(token) == token.valid

\* getUserIdFromUid: SELECT id FROM user WHERE uid = ?
getUserIdFromUid(uid) ==
    IF uid \in DOMAIN UserRows THEN UserRows[uid] ELSE NullId

\* Any known user may mutate any memo.
ForbiddenUnknownUserOnly(memo, userId, userPayload) == userId = NullId

\* memo.creator_id !== userId && userPayload.role !== 'HOST'
Forbidden(memo, userId, userPayload) ==
    memo.creator_id # userId /\ userPayload.role # "HOST"

\* The status with which PATCH /:id and DELETE /:id turn a request down
\* before any statement that writes; 0 when they go on.
Rejection(d, token, memoId) ==
    IF ~authMiddleware(token) THEN 401
    ELSE IF memoId \notin DOMAIN d.memo THEN 404
    ELSE IF Forbidden(d.memo[memoId], getUserIdFromUid(token.sub), token)
         THEN 403
    ELSE 0

\* state of the body as rowStatus; "" when it stays undefined.
rowStatus(body) ==
    IF "state" \in body.has /\ body.state \in {"ARCHIVED", "NORMAL"}
    THEN body.state ELSE ""

\* The ids of the resources named in the body: SELECT id FROM resource
\* WHERE uid = ?, the names without a row left out.
RECURSIVE resourceIds(_)
resourceIds(resources) ==
    IF resources = <<>> THEN <<>>
    ELSE (IF Head(resources) \in DOMAIN ResourceRows
          THEN <<ResourceRows[Head(resources)]>> ELSE <<>>)
         \o resourceIds(Tail(resources))

\* finalResourceIdList, and whether it is not undefined.
finalResourceIdList(body) ==
    IF Len(body.resources) > 0
    THEN [defined |-> TRUE, ids |-> resourceIds(body.resources)]
    ELSE [defined |-> "resourceIdList" \in body.has,
          ids |-> body.resourceIdList]

\* UPDATE memo SET ... WHERE id = ?, run when a field besides updated_ts is
\* set.
UpdatedMemo(row, body) ==
    IF "content" \in body.has \/ rowStatus(body) # ""
    THEN [row EXCEPT
            !.content = IF "content" \in body.has THEN body.content ELSE @,
            !.row_status = IF rowStatus(body) # "" THEN rowStatus(body) ELSE @,
            !.updated_ts = Now]
    ELSE row

\* The rows DELETE FROM t WHERE memo_id = ? leaves.
WithoutMemo(rows, memoId) == {r \in rows : r[1] # memoId}

\* The memo_relation rows of the body: one per related memo that exists with
\* row_status NORMAL.
RelationRows(d, memoId, relations) ==
    {<<memoId, relations[k]>> : k \in
        {j \in DOMAIN relations :
            /\ relations[j] \in DOMAIN d.memo
            /\ d.memo[relations[j]].row_status = "NORMAL"}}

\* updateMemoTags: the tags of the memo become those of its content.
updateMemoTags(rows, memoId, text) ==
    WithoutMemo(rows, memoId) \cup {<<memoId, t>> : t \in extractTags(text)}

\* The step after the resource associations of a PATCH.
AfterResources(body) == IF "relations" \in body.has THEN "relations" ELSE "tags"

\* The step after UPDATE memo of a PATCH.
AfterUpdate(body) ==
    IF finalResourceIdList(body).defined THEN "resources"
    ELSE AfterResources(body)

(***************************************************************************)
(* The life of one memo text.                                              *)
(***************************************************************************)
NoProperty ==
    [hasLink |-> FALSE, hasTaskList |-> FALSE, hasCode |-> FALSE,
     hasIncompleteTasks |-> FALSE]

Init ==
    /\ content \in Inputs
    /\ pc = "draft"
    /\ parser = "none"
    /\ tags = {}
    /\ nodes = <<>>
    /\ scan = <<>>
    /\ property = NoProperty
    /\ markdown = <<>>
    /\ calls = NoCalls
    /\ lastIndexOf = NoLastIndex
    /\ listing = NoListing
    /\ db = SeedDb
    /\ reqs = NoReqs

\* POST /api/memo: a memo with neither content nor resources is refused; the
\* tags of the stored content are extracted.
CreateMemo ==
    /\ pc = "draft"
    /\ \E hasResources \in BOOLEAN :
          /\ Len(content) > 0 \/ hasResources
          /\ tags' = extractTags(content)
    /\ pc' = "stored"
    /\ UNCHANGED <<content, parser, nodes, scan, property, markdown>>
    /\ UNCHANGED <<listing, callVars, backendVars>>

\* ApiClient.getMemo: the stored memo in the shape the views expect.
GetMemo ==
    /\ pc = "stored"
    /\ property' = calculateMemoProperties(content)
    /\ scan' = ConvertScan(content)
    /\ nodes' = convertContentToNodes(content)
    /\ parser' = "convert"
    /\ pc' = "loaded"
    /\ UNCHANGED <<content, tags, markdown>>
    /\ UNCHANGED <<listing, callVars, backendVars>>

\* markdownServiceClient.parseMarkdown on the text being edited.
ParseMarkdown ==
    /\ pc = "draft"
    /\ scan' = MarkdownScan(content)
    /\ nodes' = parseMarkdownToNodes(content)
    /\ parser' = "markdown"
    /\ pc' = "parsed"
    /\ UNCHANGED <<content, tags, property, markdown>>
    /\ UNCHANGED <<listing, callVars, backendVars>>

\* markdownServiceClient.restoreMarkdownNodes on the nodes of a memo.
RestoreMarkdownNodes ==
    /\ pc \in {"loaded", "parsed"}
    /\ markdown' = restoreNodesToMarkdown(nodes)
    /\ pc' = "restored"
    /\ UNCHANGED <<content, parser, tags, nodes, scan, property>>
    /\ UNCHANGED <<listing, callVars, backendVars>>

\* GET /api/memo with each property filter in turn: which of them select the
\* stored memo.
ListMemos ==
    /\ pc = "loaded"
    /\ listing' = [has_link |-> hasLinkFilter(content),
                   has_task_list |-> hasTaskListFilter(content),
                   has_code |-> hasCodeFilter(content)]
    /\ pc' = "listed"
    /\ UNCHANGED <<content, parser, tags, nodes, scan, property, markdown>>
    /\ UNCHANGED <<callVars, backendVars>>

Next ==
    CreateMemo \/ GetMemo \/ ParseMarkdown \/ RestoreMarkdownNodes \/ ListMemos

Spec == Init /\ [][Next]_vars

(***************************************************************************)
(* The invocations of concurrent requests, the memo left aside.            *)
(***************************************************************************)
InitConcurrent ==
    /\ content = <<>>
    /\ pc = "draft"
    /\ parser = "none"
    /\ tags = {}
    /\ nodes = <<>>
    /\ scan = <<>>
    /\ property = NoProperty
    /\ markdown = <<>>
    /\ calls = NoCalls
    /\ lastIndexOf = NoLastIndex
    /\ listing = NoListing
    /\ db = SeedDb
    /\ reqs = NoReqs

NextConcurrent ==
    \E r \in Requests :
        \/ CallParseLineContent(r)
        \/ TagExec(r)
        \/ LinkExec(r)
        \/ BuildAndReturn(r)
        \/ CallParseMarkdown(r)
        \/ LineStep(r)
        \/ CallClassify(r)
        \/ CallRestore(r)

Concurrent == InitConcurrent /\ [][NextConcurrent]_vars

(***************************************************************************)
(* PATCH /api/memo/:id and DELETE /api/memo/:id, one awaited statement     *)
(* that writes per step; each client sends one request.                    *)
(***************************************************************************)
\* PATCH /:id up to the authorization check: the reads of memo and user.
PatchMemo(c) ==
    /\ reqs[c].pc = "idle"
    /\ \E token \in Tokens, memoId \in TargetIds, body \in Bodies :
          LET status == Rejection(db, token, memoId) IN
          reqs' = [reqs EXCEPT ![c] =
                      [pc |-> IF status = 0 THEN "update" ELSE "done",
                       method |-> "PATCH", memoId |-> memoId,
                       token |-> token, body |-> body, todo |-> <<>>,
                       status |-> status]]
    /\ UNCHANGED <<db, memoVars, callVars>>

\* UPDATE memo SET ... WHERE id = ?
UpdateMemo(c) ==
    LET r == reqs[c] IN
    /\ r.pc = "update"
    /\ db' = [db EXCEPT !.memo[r.memoId] = UpdatedMemo(@, r.body)]
    /\ reqs' = [reqs EXCEPT ![c].pc = AfterUpdate(r.body)]
    /\ UNCHANGED <<memoVars, callVars>>

\* DELETE FROM memo_resource WHERE memo_id = ?
DeleteMemoResource(c) ==
    LET r == reqs[c]
        ids == finalResourceIdList(r.body).ids
    IN
    /\ r.pc = "resources"
    /\ db' = [db EXCEPT !.memo_resource = WithoutMemo(@, r.memoId)]
    /\ reqs' = [reqs EXCEPT
                  ![c].todo = ids,
                  ![c].pc = IF ids # <<>> THEN "insert"
                            ELSE AfterResources(r.body)]
    /\ UNCHANGED <<memoVars, callVars>>

\* INSERT INTO memo_resource (memo_id, resource_id) VALUES (?, ?): the
\* primary key (memo_id, resource_id) refuses a row the table holds, and the
\* handler answers 500 from its catch.
InsertMemoResource(c) ==
    LET r == reqs[c]
        row == <<r.memoId, Head(r.todo)>>
    IN
    /\ r.pc = "insert"
    /\ IF row \in db.memo_resource
       THEN /\ reqs' = [reqs EXCEPT ![c].pc = "done", ![c].status = 500]
            /\ UNCHANGED db
       ELSE /\ db' = [db EXCEPT !.memo_resource = @ \cup {row}]
            /\ reqs' = [reqs EXCEPT
                          ![c].todo = Tail(r.todo),
                          ![c].pc = IF Tail(r.todo) # <<>> THEN "insert"
                                    ELSE AfterResources(r.body)]
    /\ UNCHANGED <<memoVars, callVars>>

\* DELETE FROM memo_relation WHERE memo_id = ? and the INSERT of each
\* relation whose memo the SELECT finds.
UpdateRelations(c) ==
    LET r == reqs[c] IN
    /\ r.pc = "relations"
    /\ db' = [db EXCEPT !.memo_relation =
                 WithoutMemo(@, r.memoId)
                 \cup RelationRows(db, r.memoId, r.body.relations)]
    /\ reqs' = [reqs EXCEPT ![c].pc = "tags"]
    /\ UNCHANGED <<memoVars, callVars>>

\* updateMemoTags when the content was given and the user has a row, then
\* the answer with getMemoWithDetails.
UpdateTags(c) ==
    LET r == reqs[c] IN
    /\ r.pc = "tags"
    /\ db' = IF /\ "content" \in r.body.has
                /\ getUserIdFromUid(r.token.sub) # NullId
             THEN [db EXCEPT !.memo_tag =
                      updateMemoTags(@, r.memoId, r.body.content)]
             ELSE db
    /\ reqs' = [reqs EXCEPT ![c].pc = "done", ![c].status = 200]
    /\ UNCHANGED <<memoVars, callVars>>

\* DELETE /:id up to the authorization check.
DeleteMemo(c) ==
    /\ reqs[c].pc = "idle"
    /\ \E token \in Tokens, memoId \in TargetIds :
          LET status == Rejection(db, token, memoId) IN
          reqs' = [reqs EXCEPT ![c] =
                      [pc |-> IF status = 0 THEN "archive" ELSE "done",
                       method |-> "DELETE", memoId |-> memoId,
                       token |-> token, body |-> EmptyBody, todo |-> <<>>,
                       status |-> status]]
    /\ UNCHANGED <<db, memoVars, callVars>>

\* UPDATE memo SET row_status = 'ARCHIVED', updated_ts = ? WHERE id = ?
Archived(memos, memoId) ==
    [memos EXCEPT ![memoId].row_status = "ARCHIVED",
                  ![memoId].updated_ts = Now]

ArchiveMemo(c) ==
    LET r == reqs[c] IN
    /\ r.pc = "archive"
    /\ db' = [db EXCEPT !.memo = Archived(@, r.memoId)]
    /\ reqs' = [reqs EXCEPT ![c].pc = "done", ![c].status = 200]
    /\ UNCHANGED <<memoVars, callVars>>

InitBackend ==
    /\ content = <<>>
    /\ pc = "draft"
    /\ parser = "none"
    /\ tags = {}
    /\ nodes = <<>>
    /\ scan = <<>>
    /\ property = NoProperty
    /\ markdown = <<>>
    /\ calls = NoCalls
    /\ lastIndexOf = NoLastIndex
    /\ listing = NoListing
    /\ db = SeedDb
    /\ reqs = NoReqs

NextBackend ==
    \E c \in Clients :
        \/ PatchMemo(c)
        \/ UpdateMemo(c)
        \/ DeleteMemoResource(c)
        \/ InsertMemoResource(c)
        \/ UpdateRelations(c)
        \/ UpdateTags(c)
        \/ DeleteMemo(c)
        \/ ArchiveMemo(c)

Backend == InitBackend /\ [][NextBackend]_vars

(***************************************************************************)
(* Vocabulary of the properties.                                           *)
(***************************************************************************)
Lines == SplitLines(content)

Loaded == parser = "convert" /\ pc \in {"loaded", "restored"}

Parsed == parser = "markdown" /\ pc \in {"parsed", "restored"}

Restored == pc = "restored"

\* The characters of a text, as a set.
CharsOf(s) == {s[k] : k \in 1..Len(s)}

\* The source text an inline node stands for.
SourceOf(node) ==
    IF node.type = "TAG" THEN <<"#">> \o node.content
    ELSE IF node.type = "AUTO_LINK" THEN node.url
    ELSE IF node.type = "TEXT" THEN node.content
    ELSE <<>>

RECURSIVE ConcatSources(_)
ConcatSources(ns) ==
    IF Len(ns) = 0 THEN <<>> ELSE SourceOf(ns[1]) \o ConcatSources(Tail(ns))

\* The lines that the last GetMemo handed to parseLineContent: those of the
\* iterations that pushed a paragraph.
TokenizedLines ==
    {Lines[i + 1] : i \in UNION {scan[k].first .. scan[k].next - 1 :
                                  k \in {j \in 1..Len(scan) :
                                           /\ Len(scan[j].nodes) = 1
                                           /\ scan[j].nodes[1].type = "PARAGRAPH"}}}

\* The spans of a line partition it: they start at 0, each begins where the
\* previous one ends, the last ends with the line, each node stands for the
\* text of its extent, and the sources concatenated give the line back.
Covers(line) ==
    LET sp == parseLineSpans(line)
    IN /\ Len(sp) > 0
       /\ sp[1].start = 0
       /\ sp[Len(sp)].end = Len(line)
       /\ \A k \in 1..Len(sp) :
             /\ sp[k].start <= sp[k].end
             /\ SourceOf(sp[k].node) = Substring(line, sp[k].start, sp[k].end)
             /\ k < Len(sp) => sp[k].end = sp[k + 1].start
       /\ ConcatSources(parseLineContent(line)) = line

\* C1: for every line handed to the inline tokenizer, the TAG / AUTO_LINK /
\* TEXT spans it emits are contiguous, pairwise non-overlapping, and their
\* source extents concatenated in output order give the line back.
C1_Coverage == Loaded => \A line \in TokenizedLines : Covers(line)

\* The block nodes of a node list that hold inline children.
BlocksWithChildren(ns) ==
    {ns[i] : i \in {j \in 1..Len(ns) : ns[j].type \notin {"CODE_BLOCK", "LINE_BREAK"}}}

\* The TAG nodes among the inline children of a node list.
TagNodesOf(ns) ==
    UNION {{n.children[k] : k \in {j \in 1..Len(n.children) : n.children[j].type = "TAG"}} :
             n \in BlocksWithChildren(ns)}

\* The tag names carried by the TAG nodes of a node list.
TagNamesOf(ns) == {c.content : c \in TagNodesOf(ns)}

\* C2: the tag names stored for a memo by the backend equal the tag names of
\* the TAG nodes that the client's block scanner produces for the same text.
C2_TagAgreement == Loaded => tags = TagNamesOf(nodes)

\* A plain paragraph line: letters and spaces only, not blank.  The lines
\* between paragraphs are empty lines.
IsPlainLine(line) ==
    /\ CharsOf(line) \subseteq Lower \cup Upper \cup {" "}
    /\ ~IsBlank(line)

\* A text of plain paragraphs: plain lines and empty lines, one plain at least.
IsPlainText(text) ==
    LET ls == SplitLines(text)
    IN /\ \A k \in 1..Len(ls) : IsPlainLine(ls[k]) \/ Len(ls[k]) = 0
       /\ \E k \in 1..Len(ls) : IsPlainLine(ls[k])

\* C3: for a text made only of plain paragraph lines, paragraphs of several
\* lines and blank lines between paragraphs included, restoring the parsed
\* node list gives the text back exactly.
C3_ParagraphRoundTrip == (Restored /\ IsPlainText(content)) => markdown = content

\* A text that is one fenced block: an opening fence with a language tag
\* directly after it, content lines none of which is a fence, a closing fence.
IsOneFencedBlock(text) ==
    LET ls == SplitLines(text)
    IN /\ Len(ls) >= 2
       /\ StartsWith(ls[1], Fence)
       /\ CharsOf(ls[1]) \cap Whitespace = {}
       /\ ls[Len(ls)] = Fence
       /\ \A k \in 2..Len(ls) - 1 : ~IsFence(ls[k])

\* C4: a text that is one fenced block parses to exactly one CODE_BLOCK whose
\* language is what follows the opening fence and whose content is the content
\* lines joined by newline, and restoring that node gives the text back.
C4_CodeBlockFidelity ==
    (Parsed /\ IsOneFencedBlock(content)) =>
        /\ nodes = <<CodeBlockNode(SubstringFrom(Lines[1], 3),
                                   Join(SubSeq(Lines, 2, Len(Lines) - 1), <<NL>>))>>
        /\ Restored => markdown = content

(***************************************************************************)
(* Well-formed documents and the shape of a scan.                          *)
(***************************************************************************)
InlineKinds == {"TEXT", "TAG", "AUTO_LINK", "CODE", "LINE_BREAK"}

IsText(s) == s \in Seq(CharsOf(s))

IsInlineNode(c) ==
    /\ c.type \in InlineKinds
    /\ c.type \in {"TEXT", "TAG", "CODE"} => DOMAIN c = {"type", "content"} /\ IsText(c.content)
    /\ c.type = "AUTO_LINK" => DOMAIN c = {"type", "url"} /\ IsText(c.url)
    /\ c.type = "LINE_BREAK" => DOMAIN c = {"type"}

IsInlineSeq(cs) == \A k \in 1..Len(cs) : IsInlineNode(cs[k])

IsBlockNode(n) ==
    \/ n.type = "PARAGRAPH" /\ DOMAIN n = {"type", "children"} /\ IsInlineSeq(n.children)
    \/ n.type = "LINE_BREAK" /\ DOMAIN n = {"type"}
    \/ /\ n.type = "CODE_BLOCK"
       /\ DOMAIN n = {"type", "language", "content"}
       /\ IsText(n.language) /\ IsText(n.content)
    \/ /\ n.type = "HEADING"
       /\ DOMAIN n = {"type", "level", "children"}
       /\ n.level \in Nat /\ IsInlineSeq(n.children)
    \/ /\ n.type = "TASK_LIST_ITEM"
       /\ DOMAIN n = {"type", "symbol", "indent", "complete", "children"}
       /\ n.indent \in Nat /\ n.complete \in BOOLEAN /\ IsInlineSeq(n.children)
    \/ /\ n.type = "UNORDERED_LIST_ITEM"
       /\ DOMAIN n = {"type", "symbol", "indent", "children"}
       /\ n.indent \in Nat /\ IsInlineSeq(n.children)
    \/ /\ n.type = "ORDERED_LIST_ITEM"
       /\ DOMAIN n = {"type", "number", "indent", "children"}
       /\ n.indent \in Nat /\ IsText(n.number) /\ IsInlineSeq(n.children)

IsDocument(ns) == \A k \in 1..Len(ns) : IsBlockNode(ns[k])

\* The nodes of a list of iterations, in order.
RECURSIVE Flatten(_)
Flatten(ss) == IF Len(ss) = 0 THEN <<>> ELSE ss[1] \o Flatten(Tail(ss))

\* The iterations cut the lines into consecutive, non-empty ranges from the
\* first line to the last, and the node list holds their nodes and no other.
ScanPartitions ==
    /\ Len(scan) > 0 => scan[1].first = 0 /\ scan[Len(scan)].next >= Len(Lines)
    /\ \A k \in 1..Len(scan) :
          /\ scan[k].first < scan[k].next
          /\ scan[k].first < Len(Lines)
          /\ k < Len(scan) => scan[k + 1].first = scan[k].next
    /\ nodes = Flatten([k \in 1..Len(scan) |-> scan[k].nodes])

\* The first line of iteration k.
FirstLine(k) == Lines[scan[k].first + 1]

\* The index of the first fence line after index i, or the number of lines.
ClosingFence(i) ==
    LET later == {j \in i + 1 .. Len(Lines) - 1 : IsFence(Lines[j + 1])}
    IN IF later = {} THEN Len(Lines) ELSE CHOOSE j \in later : \A m \in later : j <= m

\* lines without its leading empty lines.
RECURSIVE DropLeadingEmpty(_)
DropLeadingEmpty(ls) ==
    IF Len(ls) > 0 /\ Len(ls[1]) = 0 THEN DropLeadingEmpty(Tail(ls)) ELSE ls

\* What a code block opened at line index i holds when it runs to index j:
\* the lines between, joined by newline.  The REST client starts the content
\* at the first non-empty line.
AbsorbedContent(i, j) ==
    IF parser = "markdown" THEN Join(SubSeq(Lines, i + 2, j), <<NL>>)
    ELSE Join(DropLeadingEmpty(SubSeq(Lines, i + 2, j)), <<NL>>)

\* No rule of the scanner in use claims the line.
FailsEveryRule(line) ==
    /\ ~IsFence(line) /\ ~IsBlank(line)
    /\ parser = "markdown" =>
          ~IsTaskLine(line) /\ ~IsUnorderedLine(line)
          /\ ~IsOrderedLine(line) /\ ~IsHeadingLine(line)

\* C5: parsing has no error outcome.  Every text parses to a well-formed
\* node list; an iteration that starts at a line no rule claims pushes one
\* PARAGRAPH that holds the line; a fence with no closing fence pushes a
\* single CODE_BLOCK, in the last iteration, that holds every remaining line.
C5_NoErrorOutcome ==
    (Loaded \/ Parsed) =>
        /\ IsDocument(nodes)
        /\ ScanPartitions
        /\ \A k \in 1..Len(scan) :
              /\ FailsEveryRule(FirstLine(k)) =>
                    /\ Len(scan[k].nodes) = 1
                    /\ scan[k].nodes[1].type = "PARAGRAPH"
                    /\ Len(scan[k].nodes[1].children) > 0
                    /\ \A i \in scan[k].first .. scan[k].next - 1 :
                          /\ FailsEveryRule(Lines[i + 1])
                          /\ IsPlainLine(Lines[i + 1]) =>
                                \E c \in 1..Len(scan[k].nodes[1].children) :
                                    scan[k].nodes[1].children[c] = TextNode(Lines[i + 1])
              /\ (IsFence(FirstLine(k)) /\ ClosingFence(scan[k].first) = Len(Lines)) =>
                    /\ k = Len(scan)
                    /\ scan[k].nodes =
                          <<[type |-> "CODE_BLOCK",
                             language |-> scan[k].nodes[1].language,
                             content |-> AbsorbedContent(scan[k].first, Len(Lines))]>>

\* C5 witness: an opening fence with no closing fence was parsed with two
\* lines after it.
C5_Witness ==
    /\ Parsed
    /\ \E k \in 1..Len(scan) :
          /\ IsFence(FirstLine(k))
          /\ ClosingFence(scan[k].first) = Len(Lines)
          /\ Len(Lines) = scan[k].first + 3
          /\ ~IsBlank(Lines[Len(Lines)])

MatchesTaskPattern(line) ==
    \E n \in 0..Len(line) :
        /\ \A j \in 1..n : line[j] \in Whitespace
        /\ Len(line) >= n + 6
        /\ SubSeq(line, n + 1, n + 3) = <<"-", " ", "[">>
        /\ line[n + 4] \in {" ", "x", "X"}
        /\ SubSeq(line, n + 5, n + 6) = <<"]", " ">>

\* The kind of the first rule, in the order of the cascade, that claims the
\* line; "PARAGRAPH" when none of the four does.
FirstRuleKind(line) ==
    IF MatchesTaskPattern(line) THEN "TASK_LIST_ITEM"
    ELSE IF IsUnorderedLine(line) THEN "UNORDERED_LIST_ITEM"
    ELSE IF IsOrderedLine(line) THEN "ORDERED_LIST_ITEM"
    ELSE IF IsHeadingLine(line) THEN "HEADING"
    ELSE "PARAGRAPH"

IsPlainTaskLine(line) ==
    /\ Len(line) >= 6
    /\ SubSeq(line, 1, 3) = <<"-", " ", "[">>
    /\ line[4] \in {" ", "x", "X"}
    /\ SubSeq(line, 5, 6) = <<"]", " ">>

\* C8: a line '- [c] rest' parses to a TASK_LIST_ITEM of indent 0 that is
\* complete exactly when c is x or X and that holds rest; a text of two such
\* lines parses to exactly the two items, in source order.
C8_TaskList ==
    Parsed =>
        /\ \A k \in 1..Len(scan) :
              (~IsFence(FirstLine(k)) /\ IsPlainTaskLine(FirstLine(k))) =>
                  LET line == FirstLine(k)
                  IN scan[k].nodes =
                        <<[type |-> "TASK_LIST_ITEM", symbol |-> "-", indent |-> 0,
                           complete |-> (line[4] = "x" \/ line[4] = "X"),
                           children |-> <<TextNode(SubSeq(line, 7, Len(line)))>>]>>
        /\ (Len(Lines) = 2 /\ IsPlainTaskLine(Lines[1]) /\ IsPlainTaskLine(Lines[2])) =>
              /\ Len(nodes) = 2
              /\ \A k \in 1..2 :
                    /\ nodes[k].type = "TASK_LIST_ITEM"
                    /\ nodes[k].indent = 0
                    /\ nodes[k].complete = (Lines[k][4] \in {"x", "X"})
                    /\ nodes[k].children = <<TextNode(SubSeq(Lines[k], 7, Len(Lines[k])))>>

\* C8 witness: the text "- [x] done", "- [ ] todo" was parsed into a
\* complete and an incomplete item.
C8_Witness ==
    /\ Parsed
    /\ Lines = <<TaskDone \o <<"d", "o", "n", "e">>, TaskOpen \o <<"t", "o", "d", "o">>>>
    /\ Len(nodes) = 2
    /\ nodes[1].complete /\ ~nodes[2].complete

\* A line of k '#' (1 <= k <= 6), one space and a rest.
HeadingLevelOf(line) ==
    IF \E n \in 1..6 : /\ Len(line) > n
                       /\ \A j \in 1..n : line[j] = "#"
                       /\ line[n + 1] = " "
    THEN CHOOSE n \in 1..6 : /\ Len(line) > n
                             /\ \A j \in 1..n : line[j] = "#"
                             /\ line[n + 1] = " "
    ELSE 0

\* The headings of a node list.
HeadingsOf(ns) == {ns[k] : k \in {j \in 1..Len(ns) : ns[j].type = "HEADING"}}

\* C9: a line of k '#' (1 <= k <= 6), a space and a rest parses to a single
\* HEADING of level k whose children are the tokenization of the rest; every
\* HEADING has a level in 1..6; a line of seven or more '#' is no HEADING.
C9_Heading ==
    Parsed =>
        /\ \A k \in 1..Len(scan) :
              LET line == FirstLine(k)
                  level == HeadingLevelOf(line)
              IN ~IsFence(line) =>
                    /\ level > 0 =>
                          scan[k].nodes =
                             <<[type |-> "HEADING", level |-> level,
                                children |-> parseLineContent(SubSeq(line, level + 2, Len(line)))]>>
                    /\ RunLen(line, 0, {"#"}) >= 7 =>
                          \A n \in 1..Len(scan[k].nodes) : scan[k].nodes[n].type # "HEADING"
        /\ \A h \in HeadingsOf(nodes) : h.level \in 1..6

\* The text holds 'http://' or 'https://' with a character that is not
\* whitespace right after it.
HoldsUrl(text) ==
    \E i \in 1..Len(text) :
        \E scheme \in {Http, Https} :
            /\ i + Len(scheme) <= Len(text)
            /\ SubSeq(text, i, i + Len(scheme) - 1) = scheme
            /\ text[i + Len(scheme)] \notin Whitespace

\* The text holds a task box: '- [', one of space, x, X, and ']'.
HoldsTaskBox(text) ==
    \E i \in 1..Len(text) :
        /\ i + 4 <= Len(text)
        /\ SubSeq(text, i, i + 4) \in {<<"-", " ", "[", c, "]">> : c \in {" ", "x", "X"}}

\* The text holds a hashtag: '#' and a tag character right after it.
HoldsHashtag(text) ==
    \E i \in 1..Len(text) - 1 : text[i] = "#" /\ text[i + 1] \in TagChars

\* C10: hasLink is true exactly when the text holds 'http://' or 'https://'
\* followed at once by a character that is not whitespace; hasCode is true
\* exactly when the text holds a backtick (alone or in a fence marker); a
\* text with a URL and a hashtag, no backtick and no task box has hasLink
\* true, hasTaskList false and hasCode false.
C10_LinkAndCode ==
    Loaded =>
        /\ property.hasLink = HoldsUrl(content)
        /\ property.hasCode = (BT \in CharsOf(content))
        /\ (/\ HoldsUrl(content) /\ HoldsHashtag(content)
            /\ BT \notin CharsOf(content) /\ ~HoldsTaskBox(content)) =>
              /\ property.hasLink
              /\ ~property.hasTaskList
              /\ ~property.hasCode

\* C10 witness: a memo with a URL, a space and a hashtag was loaded and got
\* hasLink without hasCode.
C10_Witness ==
    /\ Loaded
    /\ content = Https \o <<"x", " ", "#", "b">>
    /\ property.hasLink /\ ~property.hasCode

\* The line holds an empty task box: '- [ ]'.
HoldsEmptyBox(text) ==
    \E i \in 1..Len(text) :
        /\ i + 4 <= Len(text)
        /\ SubSeq(text, i, i + 4) = <<"-", " ", "[", " ", "]">>

\* C11: hasTaskList is true exactly when some line of the text holds '- [',
\* one of space, x, X, and ']'; hasIncompleteTasks is true exactly when some
\* line holds the empty box '- [ ]'; a text whose only boxes are '- [x]' or
\* '- [X]' has hasTaskList true and hasIncompleteTasks false.
C11_TaskFacts ==
    Loaded =>
        /\ property.hasTaskList = (\E k \in 1..Len(Lines) : HoldsTaskBox(Lines[k]))
        /\ property.hasIncompleteTasks = (\E k \in 1..Len(Lines) : HoldsEmptyBox(Lines[k]))
        /\ (HoldsTaskBox(content) /\ ~HoldsEmptyBox(content)) =>
              property.hasTaskList /\ ~property.hasIncompleteTasks

\* C11 witness: a memo whose only boxes are checked ones, '- [x]' and
\* '- [X]', was loaded and got hasTaskList without hasIncompleteTasks.
C11_Witness ==
    /\ Loaded
    /\ Lines = <<TaskDone \o <<"d", "o", "n", "e">>,
                 <<"-", " ", "[", "X", "]", " ", "#", "b">>>>
    /\ property.hasTaskList /\ ~property.hasIncompleteTasks

\* What the invocation returns when it runs alone.
AloneValue(c) ==
    IF c.op = "parseLineContent" THEN parseLineContent(c.input)
    ELSE IF c.op = "parseMarkdownToNodes" THEN parseMarkdownToNodes(c.input)
    ELSE IF c.op = "calculateMemoProperties" THEN calculateMemoProperties(c.input)
    ELSE restoreNodesToMarkdown(c.input)

Returned(r) == calls[r].pc = "returned"

\* C12: under every interleaving of the invocations of concurrent requests,
\* each invocation returns the value it returns when run alone, so two
\* invocations of the same operation on the same input return identical
\* values, and no step changes what an earlier invocation returned.
C12_Purity ==
    /\ [](\A r \in Requests : Returned(r) => calls[r].out = AloneValue(calls[r]))
    /\ [](\A r, q \in Requests :
             (/\ Returned(r) /\ Returned(q)
              /\ calls[r].op = calls[q].op /\ calls[r].input = calls[q].input) =>
                calls[r].out = calls[q].out)
    /\ [][\A r \in Requests : Returned(r) => calls'[r].out = calls[r].out]_vars

\* C12 witness: two invocations of parseLineContent on the same line, one
\* with a hashtag and a URL, interleaved their steps and have both returned.
C12_Witness ==
    /\ \A r \in Requests :
          /\ Returned(r)
          /\ calls[r].op = "parseLineContent"
          /\ calls[r].overlapped
          /\ Len(calls[r].matches) = 2
    /\ calls["r1"].input = calls["r2"].input

\* n spaces; n '#' characters.
Spaces(n) == [k \in 1..n |-> " "]

Hashes(n) == [k \in 1..n |-> "#"]

\* The line a block node other than a CODE_BLOCK is rendered as.
RenderedLine(node) ==
    IF node.type = "TASK_LIST_ITEM"
    THEN Spaces(2 * node.indent) \o <<"-", " ", "[">>
            \o (IF node.complete THEN <<"x">> ELSE <<" ">>) \o <<"]", " ">>
            \o extractTextFromChildren(node.children)
    ELSE IF node.type = "UNORDERED_LIST_ITEM"
    THEN Spaces(2 * node.indent) \o <<"-", " ">> \o extractTextFromChildren(node.children)
    ELSE IF node.type = "ORDERED_LIST_ITEM"
    THEN Spaces(2 * node.indent) \o node.number \o <<".", " ">>
            \o extractTextFromChildren(node.children)
    ELSE IF node.type = "HEADING"
    THEN Hashes(node.level) \o <<" ">> \o extractTextFromChildren(node.children)
    ELSE IF node.type = "PARAGRAPH"
    THEN extractTextFromChildren(node.children)
    ELSE <<>>

\* The text a block node is rendered as, a CODE_BLOCK on three entries.
RenderedBlock(node) ==
    IF node.type = "CODE_BLOCK"
    THEN Fence \o node.language \o <<NL>> \o node.content \o <<NL>> \o Fence
    ELSE RenderedLine(node)

HasCodeBlock(ns) == \E k \in 1..Len(ns) : ns[k].type = "CODE_BLOCK"

\* C13: the serializer emits the block nodes in document order joined by
\* newline; a node list without CODE_BLOCK gives exactly one line per node; a
\* TASK_LIST_ITEM renders as 2*indent spaces, '- [', 'x' or ' ', '] ' and the
\* inline text, an UNORDERED_LIST_ITEM as 2*indent spaces, '- ' and the
\* inline text, an ORDERED_LIST_ITEM as 2*indent spaces, the marker, '. ' and
\* the inline text, a HEADING as level '#', a space and the inline text.
C13_Rendering ==
    Restored =>
        /\ markdown = Join([k \in 1..Len(nodes) |-> RenderedBlock(nodes[k])], <<NL>>)
        /\ (Len(nodes) > 0 /\ ~HasCodeBlock(nodes)) =>
              SplitLines(markdown) = [k \in 1..Len(nodes) |-> RenderedLine(nodes[k])]

\* C13 witness: an indented task item, an ordered item and an indented
\* unordered item were serialized.
C13_Witness ==
    /\ Restored
    /\ Len(nodes) = 3
    /\ nodes[1].type = "TASK_LIST_ITEM" /\ nodes[1].indent = 1
    /\ nodes[2].type = "ORDERED_LIST_ITEM"
    /\ nodes[3].type = "UNORDERED_LIST_ITEM" /\ nodes[3].indent = 1
    /\ Len(SplitLines(markdown)) = 3

\* The characters of the TEXT and CODE children, in order, and nothing else.
RECURSIVE TextAndCodeOnly(_)
TextAndCodeOnly(children) ==
    IF Len(children) = 0 THEN <<>>
    ELSE (IF children[1].type = "TEXT" THEN children[1].content
          ELSE IF children[1].type = "CODE" THEN <<BT>> \o children[1].content \o <<BT>>
          ELSE <<>>) \o TextAndCodeOnly(Tail(children))

HasChildren(node) == node.type \notin {"CODE_BLOCK", "LINE_BREAK"}

\* What the block node puts before its inline text.
BlockPrefix(node) == RenderedLine([node EXCEPT !.children = <<>>])

ChildKinds(node) == {node.children[k].type : k \in 1..Len(node.children)}

\* C14: the line serialized for a block node holds, after the node's own
\* prefix, the rendering of its TEXT and CODE children in order and no
\* character for a TAG or an AUTO_LINK child.
C14_DropsTagAndLink ==
    Restored =>
        markdown =
            Join([k \in 1..Len(nodes) |->
                    IF HasChildren(nodes[k])
                    THEN BlockPrefix(nodes[k]) \o TextAndCodeOnly(nodes[k].children)
                    ELSE RenderedBlock(nodes[k])], <<NL>>)

\* C14 witness: a paragraph with a TAG, an AUTO_LINK and a TEXT child was
\* serialized.
C14_Witness ==
    /\ Restored
    /\ \E k \in 1..Len(nodes) :
          /\ HasChildren(nodes[k])
          /\ {"TAG", "AUTO_LINK", "TEXT"} \subseteq ChildKinds(nodes[k])

\* A line that is neither blank nor the start of a fence.
IsParagraphLine(line) == ~IsBlank(line) /\ ~IsFence(line)

\* The tokenizations of the lines, in order, one LINE_BREAK between each two.
RECURSIVE TokenizedRuns(_)
TokenizedRuns(ls) ==
    IF Len(ls) = 0 THEN <<>>
    ELSE IF Len(ls) = 1 THEN parseLineContent(ls[1])
    ELSE parseLineContent(ls[1]) \o <<LineBreakNode>> \o TokenizedRuns(Tail(ls))

LineBreaksIn(children) ==
    Cardinality({k \in 1..Len(children) : children[k].type = "LINE_BREAK"})

ParagraphsOf(ns) == {ns[k] : k \in {j \in 1..Len(ns) : ns[j].type = "PARAGRAPH"}}

\* C15: in convertContentToNodes an iteration that starts at a line neither
\* blank nor a fence runs over the maximal run of such lines and pushes
\* exactly one PARAGRAPH, whose children are the tokenizations of the lines in
\* order with one LINE_BREAK between each two (n - 1 for n lines); no other
\* iteration pushes a PARAGRAPH; every PARAGRAPH has at least one child.
C15_ParagraphGrouping ==
    Loaded =>
        /\ ScanPartitions
        /\ scan = <<>> => \A i \in 1..Len(Lines) : IsBlank(Lines[i])
        /\ \A k \in 1..Len(scan) :
              LET first == scan[k].first
                  next == scan[k].next
                  run == SubSeq(Lines, first + 1, next)
              IN IF IsParagraphLine(FirstLine(k))
                 THEN /\ \A i \in 1..Len(run) : IsParagraphLine(run[i])
                      /\ first > 0 => ~IsParagraphLine(Lines[first])
                      /\ next < Len(Lines) => ~IsParagraphLine(Lines[next + 1])
                      /\ scan[k].nodes = <<ParagraphNode(TokenizedRuns(run))>>
                      /\ LineBreaksIn(scan[k].nodes[1].children) = Len(run) - 1
                 ELSE \A n \in 1..Len(scan[k].nodes) : scan[k].nodes[n].type # "PARAGRAPH"
        /\ \A p \in ParagraphsOf(nodes) : Len(p.children) >= 1

\* C15 witness: a run of three lines became one PARAGRAPH with two
\* LINE_BREAK children, next to a paragraph of one line.
C15_Witness ==
    /\ Loaded
    /\ \E k \in 1..Len(scan) :
          /\ scan[k].next - scan[k].first = 3
          /\ Len(scan[k].nodes) = 1
          /\ scan[k].nodes[1].type = "PARAGRAPH"
          /\ LineBreaksIn(scan[k].nodes[1].children) = 2

ItemKinds == {"TASK_LIST_ITEM", "UNORDERED_LIST_ITEM", "ORDERED_LIST_ITEM", "HEADING"}

\* The inline content of a list item or heading line: what follows the
\* marker ('- [c] ', '- ', 'n. ' after the leading whitespace; '#...# ').
ItemRest(line, kind) ==
    LET n == RunLen(line, 0, Whitespace)
    IN IF kind = "TASK_LIST_ITEM" THEN SubstringFrom(line, n + 6)
       ELSE IF kind = "UNORDERED_LIST_ITEM" THEN SubstringFrom(line, n + 2)
       ELSE IF kind = "ORDERED_LIST_ITEM"
       THEN SubstringFrom(line, n + RunLen(line, n, Digits) + 2)
       ELSE SubstringFrom(line, RunLen(line, 0, {"#"}) + 1)

\* C16: the children of every HEADING, TASK_LIST_ITEM, UNORDERED_LIST_ITEM
\* and ORDERED_LIST_ITEM node are the inline tokenization of the text after
\* the line's marker, so a hashtag there is a TAG child and a URL an
\* AUTO_LINK child, as inside a paragraph.
C16_InlineDelegation ==
    (Loaded \/ Parsed) =>
        \A k \in 1..Len(scan) :
            \A n \in 1..Len(scan[k].nodes) :
                LET node == scan[k].nodes[n]
                IN node.type \in ItemKinds =>
                      node.children = parseLineContent(ItemRest(FirstLine(k), node.type))

\* The iterations of the last scan that pushed a PARAGRAPH for a single line.
OneLineParagraphs ==
    {k \in 1..Len(scan) : /\ scan[k].next = scan[k].first + 1
                          /\ Len(scan[k].nodes) = 1
                          /\ scan[k].nodes[1].type = "PARAGRAPH"}

\* C17: for every non-empty line handed to the tokenizer it returns at least
\* one node, and for a line that holds neither a hashtag nor a URL exactly one
\* TEXT node whose content is the whole line.
C17_NeverEmpty ==
    Loaded =>
        /\ \A line \in TokenizedLines :
              Len(line) > 0 =>
                 /\ Len(parseLineContent(line)) >= 1
                 /\ (~HoldsHashtag(line) /\ ~HoldsUrl(line)) =>
                       parseLineContent(line) = <<TextNode(line)>>
        /\ \A k \in OneLineParagraphs :
              LET line == FirstLine(k)
              IN /\ Len(scan[k].nodes[1].children) >= 1
                 /\ (~HoldsHashtag(line) /\ ~HoldsUrl(line)) =>
                       scan[k].nodes[1].children = <<TextNode(line)>>

\* C17 witness: a line with a '#' and a scheme that start neither a hashtag
\* nor a URL was tokenized into one TEXT node.
C17_Witness ==
    /\ Loaded
    /\ \E k \in OneLineParagraphs :
          /\ "#" \in CharsOf(FirstLine(k))
          /\ StartsWith(FirstLine(k), Http)
          /\ ~HoldsHashtag(FirstLine(k)) /\ ~HoldsUrl(FirstLine(k))
          /\ scan[k].nodes[1].children = <<TextNode(FirstLine(k))>>

SortedMatches(line) == SortByStart(TagMatches(line) \o LinkMatches(line))

\* The spans of TAG and AUTO_LINK nodes among the spans, in output order.
MatchSpans(spans) == SelectSeq(spans, LAMBDA s : s.node.type # "TEXT")

\* The position in spans of its k-th TAG / AUTO_LINK span.
PositionOfMatch(spans, k) ==
    CHOOSE p \in 1..Len(spans) :
        /\ spans[p].node.type # "TEXT"
        /\ Cardinality({q \in 1..p : spans[q].node.type # "TEXT"}) = k

\* The matches are emitted in ascending start offset, each one preceded by
\* the TEXT of the gap since the end of the previous match when that gap is
\* not empty, and by no TEXT otherwise.
OrderedWithGaps(line) ==
    LET ms == SortedMatches(line)
        spans == parseLineSpans(line)
    IN /\ \A k \in 1..Len(ms) - 1 : ms[k].start <= ms[k + 1].start
       /\ MatchSpans(spans) =
             [k \in 1..Len(ms) |->
                 [node |-> MatchNode(ms[k]), start |-> ms[k].start, end |-> ms[k].end]]
       /\ \A k \in 1..Len(ms) :
             LET p == PositionOfMatch(spans, k)
                 prevEnd == IF k = 1 THEN 0 ELSE ms[k - 1].end
             IN IF ms[k].start > prevEnd
                THEN /\ p > 1
                     /\ spans[p - 1] =
                           [node |-> TextNode(Substring(line, prevEnd, ms[k].start)),
                            start |-> prevEnd, end |-> ms[k].start]
                ELSE p = 1 \/ spans[p - 1].node.type # "TEXT"

\* C19: the TAG and AUTO_LINK nodes of a tokenized line appear in the order
\* of their start offsets; before each one a TEXT node holds exactly the
\* characters between the end of the previous match and its start whenever
\* there are any, a gap of whitespace alone included.
C19_OrderAndGaps ==
    Loaded =>
        /\ \A line \in TokenizedLines : OrderedWithGaps(line)
        /\ \A k \in OneLineParagraphs :
              scan[k].nodes[1].children = NodesOf(parseLineSpans(FirstLine(k)))

\* C19 witness: a line with a URL, a space and a hashtag was tokenized into
\* AUTO_LINK, TEXT " ", TAG.
C19_Witness ==
    /\ Loaded
    /\ \E k \in OneLineParagraphs :
          scan[k].nodes[1].children =
              <<AutoLinkNode(Https \o <<"x">>), TextNode(<<" ">>), TagNode(<<"b">>)>>

\* The children without the LINE_BREAK nodes.
WithoutLineBreaks(children) == SelectSeq(children, LAMBDA c : c.type # "LINE_BREAK")

\* The lines put end to end with nothing between them.
RECURSIVE Concatenated(_)
Concatenated(ls) == IF Len(ls) = 0 THEN <<>> ELSE ls[1] \o Concatenated(Tail(ls))

\* The number of nodes pushed by the iterations before iteration k.
NodesBefore(k) == Len(Flatten([j \in 1..k - 1 |-> scan[j].nodes]))

\* C20: a LINE_BREAK child of a PARAGRAPH contributes the empty string, so
\* the paragraph is serialized as one line in which the texts of adjacent
\* source lines follow each other directly; a paragraph of plain lines is
\* rendered as its lines concatenated.
C20_LineBreakCollapses ==
    (Restored /\ Loaded) =>
        /\ markdown =
              Join([k \in 1..Len(nodes) |->
                      IF nodes[k].type = "PARAGRAPH"
                      THEN TextAndCodeOnly(WithoutLineBreaks(nodes[k].children))
                      ELSE RenderedBlock(nodes[k])], <<NL>>)
        /\ ~HasCodeBlock(nodes) =>
              \A k \in 1..Len(scan) :
                  LET run == SubSeq(Lines, scan[k].first + 1, scan[k].next)
                  IN (/\ Len(scan[k].nodes) = 1
                      /\ \A i \in 1..Len(run) : IsPlainLine(run[i])) =>
                        SplitLines(markdown)[NodesBefore(k) + 1] = Concatenated(run)

\* C20 witness: the paragraph "a", "b c" was serialized as the one line
\* "ab c".
C20_Witness ==
    /\ Restored /\ Loaded
    /\ Lines = << <<"a">>, <<"b", " ", "c">> >>
    /\ LineBreaksIn(nodes[1].children) = 1
    /\ markdown = <<"a", "b", " ", "c">>

ListKinds == {"TASK_LIST_ITEM", "UNORDERED_LIST_ITEM", "ORDERED_LIST_ITEM"}

\* The number of whitespace characters the line starts with.
LeadingWhitespace(line) ==
    CHOOSE n \in 0..Len(line) :
        /\ \A j \in 1..n : line[j] \in Whitespace
        /\ n < Len(line) => line[n + 1] \notin Whitespace

\* C21: every task, unordered and ordered list item node has the indent
\* floor(n / 2), n being the number of leading whitespace characters of its
\* line: a natural number k with 2k <= n <= 2k + 1.
C21_ListIndent ==
    Parsed =>
        \A k \in 1..Len(scan) :
            \A m \in 1..Len(scan[k].nodes) :
                LET node == scan[k].nodes[m]
                    n == LeadingWhitespace(FirstLine(k))
                IN node.type \in ListKinds =>
                      /\ node.indent \in Nat
                      /\ 2 * node.indent <= n
                      /\ n <= 2 * node.indent + 1

\* C21 witness: list items on lines of one, two and three leading spaces
\* were parsed, with indents 0, 1 and 1.
C21_Witness ==
    /\ Parsed
    /\ \A n \in {1, 2, 3} :
          \E k \in 1..Len(scan) :
              /\ LeadingWhitespace(FirstLine(k)) = n
              /\ Len(scan[k].nodes) = 1
              /\ scan[k].nodes[1].type \in ListKinds
              /\ scan[k].nodes[1].indent = IF n = 1 THEN 0 ELSE 1

\* The line starts, after its leading whitespace, with the fence marker.
StartsFenceAfterTrim(line) ==
    \E n \in 0..Len(line) :
        /\ \A j \in 1..n : line[j] \in Whitespace
        /\ Len(line) >= n + 3
        /\ SubSeq(line, n + 1, n + 3) = Fence

CodeBlocksOf(ns) == {ns[k] : k \in {j \in 1..Len(ns) : ns[j].type = "CODE_BLOCK"}}

\* C22: no line of the content of a CODE_BLOCK produced by either scanner
\* starts, after trimming, with the fence marker.
C22_NoFenceInContent ==
    (Loaded \/ Parsed) =>
        \A b \in CodeBlocksOf(nodes) :
            LET ls == SplitLines(b.content)
            IN \A k \in 1..Len(ls) : ~StartsFenceAfterTrim(ls[k])

\* C22 witness: a code block with content was closed by an indented fence
\* line.
C22_Witness ==
    /\ Loaded \/ Parsed
    /\ \E k \in 1..Len(scan) :
          /\ IsFence(FirstLine(k))
          /\ ClosingFence(scan[k].first) < Len(Lines)
          /\ Lines[ClosingFence(scan[k].first) + 1][1] = " "
          /\ Len(scan[k].nodes[1].content) > 0

\* The tag alphabet: ASCII letters, digits, '_', '-' and the CJK range.
TagAlphabet == Lower \cup Upper \cup Digits \cup {"_", "-"} \cup CJK

\* The inline children of the nodes, whatever their block.
InlineChildrenOf(ns) ==
    UNION {{n.children[k] : k \in 1..Len(n.children)} : n \in BlocksWithChildren(ns)}

\* C23: every AUTO_LINK node has a url that begins with 'http://' or
\* 'https://' and holds no whitespace; every TAG node has a name that is not
\* empty and is made of characters of the tag alphabet only, so never of '#'.
C23_InlinePayloads ==
    (Loaded \/ Parsed) =>
        \A c \in InlineChildrenOf(nodes) :
            /\ c.type = "AUTO_LINK" =>
                  /\ StartsWith(c.url, Http) \/ StartsWith(c.url, Https)
                  /\ CharsOf(c.url) \cap Whitespace = {}
            /\ c.type = "TAG" =>
                  /\ Len(c.content) > 0
                  /\ CharsOf(c.content) \subseteq TagAlphabet
                  /\ "#" \notin CharsOf(c.content)

\* C23 witness: a memo was loaded whose nodes hold an AUTO_LINK that begins
\* with 'https://', an AUTO_LINK that holds a '#', and a TAG.
C23_Witness ==
    /\ Loaded
    /\ \E c \in InlineChildrenOf(nodes) : c.type = "AUTO_LINK" /\ StartsWith(c.url, Https)
    /\ \E c \in InlineChildrenOf(nodes) : c.type = "AUTO_LINK" /\ "#" \in CharsOf(c.url)
    /\ \E c \in InlineChildrenOf(nodes) : c.type = "TAG"

\* C24: a blank line outside a code fence produces no node, a top-level
\* LINE_BREAK included, in either scanner; a text that is empty or only
\* whitespace parses to the empty node list.
C24_BlankLinesSkipped ==
    (Loaded \/ Parsed) =>
        /\ \A k \in 1..Len(scan) : IsBlank(FirstLine(k)) => scan[k].nodes = <<>>
        /\ \A n \in 1..Len(nodes) : nodes[n].type # "LINE_BREAK"
        /\ IsBlank(content) => nodes = <<>>

\* The lines iteration k ran over, as a text.
TextOfIteration(k) ==
    LET last == IF scan[k].next < Len(Lines) THEN scan[k].next ELSE Len(Lines)
    IN Join(SubSeq(Lines, scan[k].first + 1, last), <<NL>>)

\* The node list of the scanner in use.
ScannerOf(text) ==
    IF parser = "markdown" THEN parseMarkdownToNodes(text) ELSE convertContentToNodes(text)

\* The iterations whose range holds line index i.
IterationsOver(i) == {k \in 1..Len(scan) : scan[k].first <= i /\ i < scan[k].next}

\* C25: every iteration of either scanner starts where the previous one
\* stopped and advances the cursor by at least one line, so there are at most
\* as many iterations as lines; every line is run over by exactly one
\* iteration, and the nodes an iteration pushes are built from its own lines
\* alone.
C25_ScanTerminates ==
    (Loaded \/ Parsed) =>
        /\ Len(scan) <= Len(Lines)
        /\ \A k \in 1..Len(scan) :
              /\ scan[k].first = (IF k = 1 THEN 0 ELSE scan[k - 1].next)
              /\ scan[k].next >= scan[k].first + 1
              /\ scan[k].nodes = ScannerOf(TextOfIteration(k))
        /\ (parser = "markdown" \/ ~IsBlank(content)) =>
              \A i \in 0..Len(Lines) - 1 : Cardinality(IterationsOver(i)) = 1
        /\ nodes = Flatten([k \in 1..Len(scan) |-> scan[k].nodes])

\* C25 witness: a text of three lines was loaded in two iterations, the first
\* over two lines.
C25_Witness ==
    /\ Loaded
    /\ Len(Lines) = 3
    /\ Len(scan) = 2
    /\ scan[1].next = 2
    /\ Len(scan[1].nodes) = 1 /\ Len(scan[2].nodes) = 1

TypesOf(ns) == {ns[k].type : k \in 1..Len(ns)}

TaskItemsOf(ns) == {ns[k] : k \in {j \in 1..Len(ns) : ns[j].type = "TASK_LIST_ITEM"}}

InlineTypesOf(ns) == {c.type : c \in InlineChildrenOf(ns)}

\* C26: whatever either scanner finds, the classifier reports: a
\* TASK_LIST_ITEM node implies hasTaskList, an incomplete one implies
\* hasIncompleteTasks, a CODE_BLOCK or an inline CODE node implies hasCode,
\* an AUTO_LINK node implies hasLink; hasIncompleteTasks implies hasTaskList.
C26_ClassifierSound ==
    (Loaded \/ Parsed) =>
        LET p == calculateMemoProperties(content)
        IN /\ Loaded => property = p
           /\ TaskItemsOf(nodes) # {} => p.hasTaskList
           /\ (\E t \in TaskItemsOf(nodes) : ~t.complete) => p.hasIncompleteTasks
           /\ ("CODE_BLOCK" \in TypesOf(nodes) \/ "CODE" \in InlineTypesOf(nodes)) => p.hasCode
           /\ "AUTO_LINK" \in InlineTypesOf(nodes) => p.hasLink
           /\ p.hasIncompleteTasks => p.hasTaskList

\* C26 witness: a text was parsed into an inline CODE node and no
\* CODE_BLOCK, and the classifier reports hasCode for it.
C26_Witness ==
    /\ Parsed
    /\ "CODE" \in InlineTypesOf(nodes)
    /\ "CODE_BLOCK" \notin TypesOf(nodes)
    /\ calculateMemoProperties(content).hasCode

(***************************************************************************)
(* The listing filters against the classifier.                             *)
(***************************************************************************)
Listed == pc = "listed"

\* C27: a property filter of the memo listing never leaves out a memo the
\* classifier marks: when calculateMemoProperties reports hasLink,
\* hasTaskList or hasCode for a content, the content satisfies the LIKE
\* condition the listing builds for has_link, has_task_list or has_code.
C27_FiltersCoverClassifier ==
    Listed =>
        /\ property.hasLink => listing.has_link
        /\ property.hasTaskList => listing.has_task_list
        /\ property.hasCode => listing.has_code

\* A listed memo with a link and inline code, selected by the two filters
\* and left out by the task list filter.
C27_Witness ==
    /\ Listed
    /\ property.hasLink /\ property.hasCode /\ ~property.hasTaskList
    /\ listing.has_link /\ listing.has_code /\ ~listing.has_task_list

(***************************************************************************)
(* Serializing and parsing again.                                          *)
(***************************************************************************)
\* C28: serialization yields a normal form for the markdown service: the
\* text restored from the nodes parseMarkdownToNodes gave for a text parses
\* to the same node list.
C28_NormalForm ==
    (Restored /\ parser = "markdown") =>
        parseMarkdownToNodes(markdown) = nodes

(***************************************************************************)
(* Who changes a memo, and what a refusal leaves behind.                   *)
(***************************************************************************)
\* What the tables hold about memo m.
MemoState(d, m) ==
    [row |-> IF m \in DOMAIN d.memo THEN <<d.memo[m]>> ELSE <<>>,
     resources |-> {r \in d.memo_resource : r[1] = m},
     relations |-> {r \in d.memo_relation : r[1] = m},
     tags |-> {r \in d.memo_tag : r[1] = m}]

\* The token is accepted and names the creator of memo m or a HOST.
CreatorOrHost(d, token, m) ==
    /\ token.valid
    /\ m \in DOMAIN d.memo
    /\ \/ token.role = "HOST"
       \/ /\ token.sub \in DOMAIN UserRows
          /\ UserRows[token.sub] = d.memo[m].creator_id

\* The request of client c takes a step.
Steps(c) == reqs'[c] # reqs[c]

\* Whatever changes about a memo is changed by a step of a request on that
\* memo whose user is its creator or a HOST.
OnlyCreatorOrHostChanges ==
    \A m \in TargetIds :
        MemoState(db', m) # MemoState(db, m) =>
            \E c \in Clients :
                /\ Steps(c)
                /\ reqs[c].memoId = m
                /\ CreatorOrHost(db, reqs[c].token, m)

\* The step that answers 401, 403 or 404 writes nothing, and the request
\* takes no step after it.
RejectionWritesNothing ==
    \A c \in Clients :
        /\ (Steps(c) /\ reqs'[c].status \in {401, 403, 404}) => db' = db
        /\ reqs[c].status \in {401, 403, 404} => ~Steps(c)

\* A step of DELETE keeps every row: at most it archives the memo it names.
DeleteOnlyArchives ==
    \A c \in Clients :
        (Steps(c) /\ reqs'[c].method = "DELETE") =>
            /\ DOMAIN db'.memo = DOMAIN db.memo
            /\ db'.memo_resource = db.memo_resource
            /\ db'.memo_relation = db.memo_relation
            /\ db'.memo_tag = db.memo_tag
            /\ \A m \in DOMAIN db.memo :
                  \/ db'.memo[m] = db.memo[m]
                  \/ /\ m = reqs[c].memoId
                     /\ db'.memo[m] =
                           [db.memo[m] EXCEPT !.row_status = "ARCHIVED",
                                              !.updated_ts = Now]

\* C29: memo mutation is authorized and all-or-nothing on rejection: the
\* fields, resource associations, relations and tags of a memo are changed
\* only by PATCH and DELETE requests of its creator or of a HOST, a request
\* answered 401, 403 or 404 leaves every table as it was, and DELETE never
\* removes the memo row, it only sets row_status to ARCHIVED and updated_ts.
C29_AuthorizedMutation ==
    [][OnlyCreatorOrHostChanges /\ RejectionWritesNothing /\ DeleteOnlyArchives]_vars

\* The creator of memo 2 was refused a PATCH of memo 1 with 403 and the HOST
\* archived memo 1 with DELETE: the row is kept with its content.
C29_Witness ==
    /\ reqs["c1"].method = "PATCH" /\ reqs["c1"].status = 403
    /\ reqs["c1"].memoId = 1 /\ reqs["c1"].token.sub = "u2"
    /\ reqs["c2"].method = "DELETE" /\ reqs["c2"].status = 200
    /\ reqs["c2"].memoId = 1 /\ reqs["c2"].token.role = "HOST"
    /\ db.memo[1] = [SeedDb.memo[1] EXCEPT !.row_status = "ARCHIVED",
                                          !.updated_ts = Now]
    /\ MemoState(db, 2) = MemoState(SeedDb, 2)

(***************************************************************************)
(* Two PATCH requests that replace the resources of one memo.              *)
(***************************************************************************)
\* The request of client c is a PATCH with a resource list, answered 200.
ReplacedResources(c) ==
    /\ reqs[c].method = "PATCH"
    /\ reqs[c].status = 200
    /\ finalResourceIdList(reqs[c].body).defined

\* The resource ids the request of client c asks for.
AskedResources(c) ==
    LET ids == finalResourceIdList(reqs[c].body).ids
    IN {ids[k] : k \in DOMAIN ids}

\* The resource ids associated with memo m.
ResourcesOf(m) == {r[2] : r \in {x \in db.memo_resource : x[1] = m}}

\* C30: resource association replace is serializable: when two PATCH
\* requests on the same memo, each with a resource list, have run with their
\* statements interleaved, the memo's resource associations are exactly the
\* list of one of the two requests, never a union or a mixture.
C30_ReplaceSerializable ==
    (/\ ReplacedResources("c1")
     /\ ReplacedResources("c2")
     /\ reqs["c1"].memoId = reqs["c2"].memoId) =>
        \/ ResourcesOf(reqs["c1"].memoId) = AskedResources("c1")
        \/ ResourcesOf(reqs["c1"].memoId) = AskedResources("c2")

====
